---------------------------- MODULE Spec2Model ----------------------------
(***************************************************************************)
(* A model of ufmt's file-formatting pipeline (src/ufmt/core.py) and its   *)
(* file I/O helpers (src/ufmt/util.py).                                    *)
(*                                                                         *)
(* File contents are byte sequences over a small alphabet that keeps the   *)
(* two bytes the code treats specially, CR and LF.  The import sorter, the *)
(* formatter, the pre/post processors and the operating system are         *)
(* external to the repository: every outcome they can produce (a return    *)
(* value, an exception, a skip signal, a failed or partial write) is an    *)
(* input of the model, chosen nondeterministically.                        *)
(***************************************************************************)
EXTENDS Naturals, Sequences, FiniteSets, TLC

(* ------------------------------ bounds --------------------------------- *)

\* longest file content, in bytes
MaxLen == 2

\* longest list of paths given to ufmt_paths
MaxPaths == 2

\* longest file read and written back by read_file and write_file alone
MaxFileLen == 4

\* most calls made to load_config and its cache_clear in one process
MaxCalls == 4

\* entries the cache of load_config keeps in the model; functools.lru_cache
\* keeps 128 by default and evicts the least recently used in the same way
MaxCached == 2

\* how far the clock moves while a ResultCache is in use, in units of its
\* threshold
MaxTicks == 2

(* ------------------------------- state --------------------------------- *)

VARIABLES
  disk,      \* the file system: the bytes behind each path, or Missing
  disk0,     \* the file system when the call was made
  world,     \* what the external collaborators can do in this run
  call,      \* the arguments of the call under way
  pc,        \* where the call is
  gen,       \* generate_paths: the input paths not walked yet
  tasks,     \* the calls made, in order, each with its outcome
  results,   \* the Results handed to the caller, in order
  raised,    \* the exception that reached the caller, or None
  warnings,  \* LOG.warning calls
  stdin,     \* the bytes waiting on standard input
  stdout,    \* the writes made to standard output, in order
  cache      \* the configurations load_config has memoized, by (path, root)

vars == <<disk, disk0, world, call, pc, gen, tasks, results, raised, warnings, stdin, stdout,
          cache>>

(* --------------------------- Python values ----------------------------- *)

\* Python's None, True and False where a field also holds strings
\* (Result.skipped is Union[bool, str], Result.error is Optional[Exception])
None == "None"
PyTrue == "True"
PyFalse == "False"

\* types.STDIN = Path("-")
STDIN == "-"

(* ----------------------------- byte strings ---------------------------- *)

Bytes == {"a", "CR", "LF"}

RECURSIVE SeqsUpTo(_, _)
SeqsUpTo(S, n) ==
  IF n = 0 THEN {<<>>}
  ELSE LET shorter == SeqsUpTo(S, n - 1)
       IN  shorter \cup {Append(s, x) : s \in {t \in shorter : Len(t) = n - 1}, x \in S}

\* every file content of the model
Contents == SeqsUpTo(Bytes, MaxLen)

\* the two newline styles, as byte strings
LF == <<"LF">>
CRLF == <<"CR", "LF">>

\* a path with no file behind it
Missing == <<"ENOENT">>

IsPrefixAt(c, i, pat) ==
  /\ i + Len(pat) - 1 <= Len(c)
  /\ \A k \in 1..Len(pat) : c[i + k - 1] = pat[k]

\* bytes.replace(old, new): left to right, non-overlapping
RECURSIVE ReplaceFrom(_, _, _, _)
ReplaceFrom(c, i, old, new) ==
  IF i > Len(c) THEN <<>>
  ELSE IF IsPrefixAt(c, i, old) THEN new \o ReplaceFrom(c, i + Len(old), old, new)
  ELSE <<c[i]>> \o ReplaceFrom(c, i + 1, old, new)

Replace(c, old, new) == ReplaceFrom(c, 1, old, new)

\* the first line of a file as buf.readline returns it: up to and including
\* the first LF, or the whole content when there is none
FirstLine(c) ==
  LET lfs == {i \in 1..Len(c) : c[i] = "LF"}
  IN  IF lfs = {} THEN c
      ELSE SubSeq(c, 1, CHOOSE i \in lfs : \A j \in lfs : i <= j)

EndsWith(c, suffix) ==
  /\ Len(c) >= Len(suffix)
  /\ SubSeq(c, Len(c) - Len(suffix) + 1, Len(c)) = suffix

(* ------------------------------- util.py ------------------------------- *)

normalize_result_Noop(content, newline) == content

\* util.normalize_result
normalize_result(content, newline) ==
  IF newline # LF THEN Replace(content, LF, newline) ELSE content

read_newline_AlwaysLF(raw) == LF

\* util.read_file on a file holding raw: the newline style is that of the
\* first line, and every occurrence of it becomes LF
read_newline(raw) ==
  IF FirstLine(raw) # <<>> /\ EndsWith(FirstLine(raw), CRLF) THEN CRLF ELSE LF

read_content_Raw(raw) == raw

\* util.py 70-73: content.replace(newline, b"\n")
read_content(raw) == Replace(raw, read_newline(raw), LF)


\* util.write_file: what the operating system can do to one call.  open(path,
\* "wb") either fails and leaves the file alone, or truncates it; buf.write
\* and the close that flushes it then persist all the bytes, or fail after
\* persisting only the first k of them.
WriteFailures(data) ==
  {[at |-> "none", k |-> Len(data)], [at |-> "open", k |-> 0]}
    \cup {[at |-> "write", k |-> k] : k \in 0..(Len(data) - 1)}

\* util.write_file: the bytes the file holds afterwards
write_file(old, content, newline, fail) ==
  LET data == normalize_result(content, newline)
  IN  IF fail.at = "open" THEN old
      ELSE SubSeq(data, 1, fail.k)

(* ------------------------- the external stages ------------------------- *)

\* contents a processor or a backend returns besides its input unchanged
Rewrites == {<<"a", "LF">>, <<"LF", "LF">>}

\* what a processor or a backend can return when given c
StageOutputs(c) == {c} \cup world.rewrites

\* bytes a processor can add at the end of what it is given, as the
\* processors of tests/core.py do (content + b"print('hello')\n")
Appends == {<<"a">>}

\* the arguments of a raised SkipFormatting: none, or one reason string
SkipArgs == {<<>>, <<"">>, <<"because I said so">>}

\* str(e) of an exception raised with these arguments
PyStr(args) == IF args = <<>> THEN "" ELSE args[1]

\* types.Sorter and types.Formatter, and a value outside each enumeration
Sorters == {"usort", "ruff-api", "skip"}
Formatters == {"black", "ruff-api"}
Unsupported == "unsupported"

\* the UfmtConfig objects a config factory can return
UfmtConfigs == [sorter : Sorters \cup {Unsupported}, formatter : Formatters \cup {Unsupported}]

\* a processor argument: None, or a callable
Processors == {None, "processor"}

(* ----------------------------- ufmt_bytes ------------------------------ *)

\* The progress of one ufmt_bytes call: kind is "ok" while it runs on, "skip"
\* once SkipFormatting was raised (args are the exception's arguments) and
\* "error" once another exception was (info names it); calls lists the
\* processors and backends invoked so far.
Running(c, calls) ==
  [kind |-> "ok", content |-> c, info |-> None, args |-> <<>>, calls |-> calls]

Raise(calls, e) ==
  [kind |-> "error", content |-> <<>>, info |-> e, args |-> <<>>, calls |-> calls]

RaiseSkip(calls, a) ==
  [kind |-> "skip", content |-> <<>>, info |-> "SkipFormatting", args |-> a, calls |-> calls]

\* repr() of a string value
PyRepr(v) == "'" \o v \o "'"

NotSupported_Unnamed(v, what) == "ValueError: not a supported " \o what

\* core.py 144 and 174: ValueError(f"{v!r} is not a supported sorter")
NotSupported(v, what) == "ValueError: " \o PyRepr(v) \o " is not a supported " \o what

\* core.py 102-103 and 177-178: a pre- or post-processor call
ProcessorOutcomes(p, processor, name) ==
  IF p.kind # "ok" \/ processor = None THEN {p}
  ELSE LET calls == Append(p.calls, name)
       IN  {Running(c, calls) : c \in StageOutputs(p.content)}
             \cup {Running(p.content \o t, calls) : t \in world.appends}
             \cup {RaiseSkip(calls, a) : a \in world.skips}
             \cup {Raise(calls, name \o " error")}

\* core.py 105-144: run the configured sorter
SorterOutcomes(p, sorter) ==
  IF p.kind # "ok" THEN {p}
  ELSE IF sorter = "usort"
    THEN LET calls == Append(p.calls, "usort")
         IN  {Running(c, calls) : c \in StageOutputs(p.content)}
               \cup {Raise(calls, "usort result.error")}
  ELSE IF sorter = "ruff-api"
    THEN LET calls == Append(p.calls, "ruff_api.isort_string")
         IN  {Running(c, calls) : c \in StageOutputs(p.content)}
               \cup {Raise(calls, "ruff_api.isort_string error")}
               \cup {Raise(p.calls, "UnicodeDecodeError")}
  ELSE IF sorter = "skip" THEN {p}
  ELSE {Raise(p.calls, NotSupported(sorter, "sorter"))}

FormatterOutcomes_AfterError(p, formatter) ==
  IF p.kind = "skip" THEN {p} ELSE {[p EXCEPT !.calls = Append(@, formatter)]}

\* core.py 149-175: decode, run the configured formatter, encode
FormatterOutcomes(p, formatter) ==
  IF p.kind # "ok" THEN {p}
  ELSE {Raise(p.calls, "UnicodeDecodeError")} \cup
    (IF formatter = "black"
       THEN LET calls == Append(p.calls, "black")
            IN  {Running(c, calls) : c \in StageOutputs(p.content)}
                  \cup {Running(p.content, calls)}   \* black.report.NothingChanged
                  \cup {Raise(calls, "black error")}
     ELSE IF formatter = "ruff-api"
       THEN LET calls == Append(p.calls, "ruff_api.format_string")
            IN  {Running(c, calls) : c \in StageOutputs(p.content)}
                  \cup {Raise(calls, "ruff_api.format_string error")}
     ELSE {Raise(p.calls, NotSupported(formatter, "formatter"))})

\* core.ufmt_bytes: every way one call on content can end
ufmt_bytes(content, ufmt_config, pre_processor, post_processor) ==
  LET s1 == ProcessorOutcomes(Running(content, <<>>), pre_processor, "pre_processor")
      s2 == UNION {SorterOutcomes(p, ufmt_config.sorter) : p \in s1}
      s3 == UNION {FormatterOutcomes(p, ufmt_config.formatter) : p \in s2}
  IN  UNION {ProcessorOutcomes(p, post_processor, "post_processor") : p \in s3}


(* ------------------------------ ufmt_file ------------------------------ *)

\* types.Result(path), with the dataclass defaults
Result(path) ==
  [path |-> path, changed |-> FALSE, written |-> FALSE, skipped |-> PyFalse,
   diff |-> <<>>, error |-> None, before |-> <<>>, after |-> <<>>]

\* moreorless.unified_diff(a, b, filename): the text is kept as what it is made
\* of, the two texts and the names on its "---" and "+++" header lines
unified_diff(a, b, filename) == <<a, b, "a/" \o filename, "b/" \o filename>>

\* what the three config factories of core.py 269-271 can do: one of them
\* raises, or they return and ufmt_config is the UfmtConfig
ConfigOutcomes ==
  {[raises |-> TRUE, config |-> [sorter |-> "usort", formatter |-> "black"]]}
    \cup {[raises |-> FALSE, config |-> c] : c \in UfmtConfigs}

\* no ufmt_bytes call, no write_file call
NotRun == [kind |-> "none", content |-> <<>>, info |-> None, args |-> <<>>, calls |-> <<>>]
NotWritten == [at |-> "not called", k |-> 0]

\* One way a ufmt_file call can end: the exception it raises to its caller
\* (or None) or else the Result it returns, the bytes the file holds
\* afterwards, and what happened on the way: the bytes the file held before
\* (old), what read_file returned (src, newline), how ufmt_bytes ended (pipe)
\* and how write_file did (fail).
Outcome(raises, result, file, old, src, newline, pipe, fail) ==
  [raised |-> raises, result |-> result, file |-> file, old |-> old,
   src |-> src, newline |-> newline, pipe |-> pipe, fail |-> fail]

SkippedValue_NoDefault(e) == PyStr(e)

\* core.py 291: str(e) or True
SkippedValue(e) == IF PyStr(e) = "" THEN PyTrue ELSE PyStr(e)

Errored_Raises(path, old, src, newline, pipe, e) ==
  Outcome(e, Result(path), old, old, src, newline, pipe, NotWritten)

\* core.py 294-296: another exception came out of read_file or ufmt_bytes
Errored(path, old, src, newline, pipe, e) ==
  Outcome(None, [Result(path) EXCEPT !.error = e], old, old, src, newline, pipe,
          NotWritten)

Skipped_WithError(path, old, src, newline, pipe) ==
  Outcome(None, [Result(path) EXCEPT !.skipped = SkippedValue(pipe.args),
                                     !.error = pipe.info],
          old, old, src, newline, pipe, NotWritten)

Skipped_AsError(path, old, src, newline, pipe) ==
  Errored(path, old, src, newline, pipe, "SkipFormatting")

\* core.py 289-292: SkipFormatting came out of ufmt_bytes
Skipped(path, old, src, newline, pipe) ==
  Outcome(None, [Result(path) EXCEPT !.skipped = SkippedValue(pipe.args)],
          old, old, src, newline, pipe, NotWritten)

Changed_Always(src, dst) == TRUE

\* core.py 306: src_contents != dst_contents
Changed(src, dst) == src # dst

MarkChanged_Forgotten(r, a, src_result, dst_result) == r

MarkChanged_NoDiff(r, a, src_result, dst_result) == [r EXCEPT !.changed = TRUE]

\* core.py 307-314: result.changed = True, and the diff when asked for
MarkChanged(r, a, src_result, dst_result) ==
  [r EXCEPT !.changed = TRUE,
            !.diff = IF a.diff THEN unified_diff(src_result, dst_result, r.path)
                     ELSE <<>>]

Writes_Always(a) == TRUE

\* core.py 316: if not dry_run
Writes(a) == ~a.dry_run

\* core.py 320: write_file returned
Written(r) == [r EXCEPT !.written = TRUE]

WriteFailed_ClearsChanged(r, e) == [r EXCEPT !.error = e, !.changed = FALSE]

WriteFailed_Swallowed(r, e) == r

\* core.py 321-322: write_file raised e
WriteFailed(r, e) == [r EXCEPT !.error = e]

\* core.py 298-324: ufmt_bytes returned dst_contents
Finish(path, old, a, src, newline, pipe) ==
  LET dst == pipe.content
      src_result == normalize_result(src, newline)
      dst_result == normalize_result(dst, newline)
      r0 == IF a.return_content
              THEN [Result(path) EXCEPT !.before = src_result, !.after = dst_result]
              ELSE Result(path)
      r1 == MarkChanged(r0, a, src_result, dst_result)
      Done(r, file, fail) == Outcome(None, r, file, old, src, newline, pipe, fail)
  IN  IF ~Changed(src, dst) THEN {Done(r0, old, NotWritten)}
      ELSE
        \* 311-312: bytes a processor put in or took out may not decode
        (IF a.diff /\ (a.pre_processor # None \/ a.post_processor # None)
           THEN {Outcome("UnicodeDecodeError", Result(path), old, old, src, newline,
                         pipe, NotWritten)}
           ELSE {})
        \cup
        (IF ~Writes(a) THEN {Done(r1, old, NotWritten)}
         ELSE {Done(IF fail.at = "none" THEN Written(r1)
                    ELSE WriteFailed(r1, "write_file error"),
                    write_file(old, dst, newline, fail), fail)
                 : fail \in WriteFailures(dst_result)})

\* core.py 277-296: read the file and run ufmt_bytes on it
ReadAndFormat(path, old, a, ufmt_config) ==
  IF old = Missing
    THEN {Errored(path, old, <<>>, LF, NotRun, "FileNotFoundError")}
  ELSE
    LET src == read_content(old)
        newline == read_newline(old)
    IN  {Errored(path, old, <<>>, LF, NotRun, "read_file error")} \cup
        UNION {
          IF pipe.kind = "skip" THEN {Skipped(path, old, src, newline, pipe)}
          ELSE IF pipe.kind = "error"
            THEN {Errored(path, old, src, newline, pipe, pipe.info)}
          ELSE Finish(path, old, a, src, newline, pipe)
          : pipe \in ufmt_bytes(src, ufmt_config, a.pre_processor, a.post_processor)}

\* core.ufmt_file on a path whose file holds old: every way the call can end
ufmt_file(path, old, a, configs) ==
  UNION {
    IF c.raises
      THEN {Outcome("config factory error in ufmt_file", Result(path), old, old, <<>>, LF, NotRun,
                    NotWritten)}
      ELSE ReadAndFormat(path, old, a, c.config)
    : c \in configs}

(* ------------------------------- the runs ------------------------------ *)

Files == {"f1", "f2"}

\* functools.lru_cache with nothing memoized
NoCache == <<>>

\* a source tree of two projects, each with its own pyproject.toml: what
\* lies in each directory, in the order a walk visits it (the layout of
\* tests/core.py 756-771, and a second project beside it)
Children ==
  [d \in {"proj", "proj/foo", "proj/foo/frob", "lib"} |->
     CASE d = "proj" -> <<"proj/foo">>
       [] d = "proj/foo" -> <<"proj/foo/__init__.py", "proj/foo/foo.py", "proj/foo/frob">>
       [] d = "proj/foo/frob" -> <<"proj/foo/frob/main.py">>
       [] d = "lib" -> <<"lib/__init__.py">>]

Dirs == DOMAIN Children

TreeFiles ==
  {"proj/foo/__init__.py", "proj/foo/foo.py", "proj/foo/frob/main.py", "lib/__init__.py"}

\* the project root found from a path; the paths outside the tree are in the
\* working directory
ProjectOf(path) ==
  IF path \in {"proj", "proj/foo", "proj/foo/frob", "proj/foo/__init__.py",
               "proj/foo/foo.py", "proj/foo/frob/main.py"} THEN "proj"
  ELSE IF path \in {"lib", "lib/__init__.py"} THEN "lib"
  ELSE "."

Projects == {"proj", "lib", "."}

\* the exclude patterns of tests/core.py 33-39 and the files of the tree
\* each of them matches, relative to the project root
Matched ==
  [pattern \in {"foo/frob/", "__init__.py"} |->
     IF pattern = "foo/frob/" THEN {"proj/foo/frob/main.py"}
     ELSE {"proj/foo/__init__.py", "lib/__init__.py"}]

\* the excludes a tool.ufmt section may list
ExcludeLists == {<<>>, <<"foo/frob/", "__init__.py">>}

\* no project configuration has excludes
NoExcludes == [p \in Projects |-> <<>>]

\* the keyword arguments ufmt_file, ufmt_stdin and ufmt_paths share
Flags ==
  [dry_run : BOOLEAN, diff : BOOLEAN, return_content : BOOLEAN,
   pre_processor : Processors, post_processor : Processors]

WithPaths(flags, paths) ==
  [paths |-> paths, dry_run |-> flags.dry_run, diff |-> flags.diff,
   return_content |-> flags.return_content, pre_processor |-> flags.pre_processor,
   post_processor |-> flags.post_processor]

\* every collaborator may return or raise all the model knows of; processors
\* that append to what they are given are left to the runs that format a file
\* twice
AnyWorld ==
  [configs |-> ConfigOutcomes, rewrites |-> Rewrites, appends |-> {},
   skips |-> SkipArgs, discovery |-> {"ok", "raise"},
   excludes |-> NoExcludes]

\* one record per ufmt_file call: submitted to the pool, finished by its
\* worker, or returned to the caller of ufmt_file
Task(path, state, out) == [path |-> path, state |-> state, out |-> out]

NoOutcome(path) ==
  Outcome(None, Result(path), Missing, Missing, <<>>, LF, NotRun, NotWritten)

NoGen == [rest |-> <<>>, buf |-> <<>>, pumped |-> <<>>, stopped |-> TRUE]

\* A direct call ufmt_file(path, ...), about to be made: the file is there
\* with any content, or is not there.
Init ==
  /\ world = AnyWorld
  /\ \E f \in Files, c \in Contents \cup {Missing} :
       /\ disk = [g \in Files |-> IF g = f THEN c ELSE Missing]
       /\ disk0 = disk
       /\ \E flags \in Flags : call = WithPaths(flags, <<f>>)
  /\ pc = "ufmt_file"
  /\ gen = NoGen
  /\ tasks = <<>>
  /\ results = <<>>
  /\ raised = None
  /\ warnings = 0
  /\ stdin = <<>>
  /\ stdout = <<>>
  /\ cache = NoCache

\* the call is made and ends
UfmtFile ==
  /\ pc = "ufmt_file"
  /\ LET path == call.paths[1]
     IN  \E o \in ufmt_file(path, disk[path], call, world.configs) :
           /\ tasks' = <<Task(path, "returned", o)>>
           /\ disk' = [disk EXCEPT ![path] = o.file]
           /\ results' = IF o.raised = None THEN <<o.result>> ELSE <<>>
           /\ raised' = o.raised
  /\ pc' = "done"
  /\ UNCHANGED <<cache, disk0, world, call, gen, warnings, stdin, stdout>>

Next == UfmtFile

Spec == Init /\ [][Next]_vars

(* ------------------------------ ufmt_paths ----------------------------- *)

\* file matches one of the exclude patterns
Excluded(file, excludes) == \E k \in DOMAIN excludes : file \in Matched[excludes[k]]

\* trailrunner's walk over children: a directory is descended into, a file
\* is yielded when it is there and matches no exclude pattern
RECURSIVE WalkTree(_, _)
WalkTree(children, excludes) ==
  IF children = <<>> THEN <<>>
  ELSE LET c == Head(children)
       IN  (IF c \in Dirs THEN WalkTree(Children[c], excludes)
            ELSE IF disk[c] = Missing \/ Excluded(c, excludes) THEN <<>>
            ELSE <<c>>) \o WalkTree(Tail(children), excludes)

\* trailrunner's walk of one input path
Walk(path, excludes) == WalkTree(<<path>>, excludes)

WalkExcludes_None(path) == <<>>

\* core.py 473-474: the excludes of the configuration resolved for the input
\* path
WalkExcludes(path) == world.excludes[ProjectOf(path)]

SkipSentinel_Break(g) == [g EXCEPT !.rest = <<>>]

\* core.py 470-472: the sentinel is passed over (continue)
SkipSentinel(g) == [g EXCEPT !.rest = Tail(@)]

GenNext_Eager(g, w) ==
  LET all == g.buf \o WalkTree(g.rest, <<>>)
  IN  IF all = <<>>
        THEN {[kind |-> "stop", item |-> None,
               gen |-> [g EXCEPT !.rest = <<>>, !.stopped = TRUE], warned |-> w]}
        ELSE {[kind |-> "item", item |-> Head(all),
               gen |-> [g EXCEPT !.rest = <<>>, !.buf = Tail(all)], warned |-> w]}

\* core.py 465-474: next(gen) on generate_paths in state g, after w warnings.
\* It ends with an item, with StopIteration, or with the exception a config
\* factory raised.
RECURSIVE GenNext(_, _)
GenNext(g, w) ==
  IF g.buf # <<>>
    THEN {[kind |-> "item", item |-> Head(g.buf), gen |-> [g EXCEPT !.buf = Tail(@)],
           warned |-> w]}
  ELSE IF g.rest = <<>>
    THEN {[kind |-> "stop", item |-> None, gen |-> [g EXCEPT !.stopped = TRUE],
           warned |-> w]}
  ELSE IF Head(g.rest) = STDIN
    THEN GenNext(SkipSentinel(g), w + 1)
  ELSE
    (IF "raise" \in world.discovery
       THEN {[kind |-> "raise", item |-> None,
              gen |-> [g EXCEPT !.rest = <<>>, !.stopped = TRUE], warned |-> w]}
       ELSE {})
    \cup GenNext([g EXCEPT !.rest = Tail(@),
                           !.buf = Walk(Head(g.rest), WalkExcludes(Head(g.rest)))], w)

DiscoveryError_Swallowed == None

\* what reaches the caller when a config factory raises in generate_paths
DiscoveryError == "config factory error in generate_paths"

DisplayPath_NeverNamed == "stdin"

\* the path the stdin content is attributed to (core.py 444-447)
DisplayPath == IF Len(call.paths) = 2 THEN call.paths[2] ELSE "stdin"

\* where ufmt_stdin stages the content (core.py 358-360)
TempPath == "tmp/" \o DisplayPath

Relabel_MinusOnly(r, path) ==
  [r EXCEPT !.path = path,
            !.diff = IF r.diff # <<>> /\ path # STDIN
                       THEN <<r.diff[1], r.diff[2], path, r.diff[4]>> ELSE r.diff]

\* core.py 377-385: the Result of the staged file, attributed to path; the
\* pattern matches both header lines and what follows "--- " or "+++ " is
\* replaced by path
Relabel(r, path) ==
  [r EXCEPT !.path = path,
            !.diff = IF r.diff # <<>> /\ path # STDIN
                       THEN <<r.diff[1], r.diff[2], path, path>> ELSE r.diff]

\* the input paths ufmt_paths may be given: up to MaxPaths of them, with or
\* without the stdin sentinel in front
PathLists ==
  {p \in SeqsUpTo(Files \cup {STDIN}, MaxPaths + 1) :
     Len(p) <= MaxPaths \/ p[1] = STDIN}

\* the files a run of ufmt_paths finds
PathsContents == {<<"a", "LF">>, <<"CR", "LF">>}

PathsFlags ==
  {f \in Flags : ~f.diff /\ ~f.return_content /\ f.post_processor = None}

\* a world of one project configuration, one rewrite and one kind of skip
SmallWorld ==
  [configs |-> {c \in ConfigOutcomes :
                  c.config = [sorter |-> "usort", formatter |-> "black"]},
   rewrites |-> {<<"a", "LF">>}, appends |-> {}, skips |-> {<<>>},
   discovery |-> {"ok", "raise"},
   excludes |-> NoExcludes]

\* ufmt_paths(paths, ...) has been called and its generator not yet advanced
InitPaths ==
  /\ world = SmallWorld
  /\ disk \in [Files -> PathsContents \cup {Missing}]
  /\ disk0 = disk
  /\ \E p \in PathLists, flags \in PathsFlags : call = WithPaths(flags, p)
  /\ pc = "ufmt_paths"
  /\ gen = [rest |-> call.paths, buf |-> <<>>, pumped |-> <<>>, stopped |-> FALSE]
  /\ tasks = <<>>
  /\ results = <<>>
  /\ raised = None
  /\ warnings = 0
  /\ stdin \in (IF call.paths # <<>> /\ call.paths[1] = STDIN THEN PathsContents
                ELSE {<<>>})
  /\ stdout = <<>>
  /\ cache = NoCache

\* core.py 437-438
NoPaths ==
  /\ pc = "ufmt_paths"
  /\ call.paths = <<>>
  /\ pc' = "done"
  /\ UNCHANGED <<cache, disk, disk0, world, call, gen, tasks, results, raised, warnings, stdin, stdout>>

\* core.py 441-443
TooManyStdinPaths ==
  /\ pc = "ufmt_paths"
  /\ call.paths # <<>>
  /\ call.paths[1] = STDIN
  /\ Len(call.paths) > 2
  /\ raised' = "ValueError: too many stdin paths"
  /\ pc' = "done"
  /\ UNCHANGED <<cache, disk, disk0, world, call, gen, tasks, results, warnings, stdin, stdout>>

\* core.py 444-459 and core.ufmt_stdin: the config factories are called
\* once, the content is staged in a temporary file, ufmt_file formats that
\* file, and the file's bytes go to standard output unless dry_run
UfmtStdin ==
  /\ pc = "ufmt_paths"
  /\ call.paths # <<>>
  /\ call.paths[1] = STDIN
  /\ Len(call.paths) <= 2
  /\ \E c \in world.configs :
       IF c.raises
         THEN /\ raised' = "config factory error in ufmt_stdin"
              /\ UNCHANGED <<tasks, results, stdin, stdout>>
         ELSE \E o \in ufmt_file(TempPath, stdin, call, {c}) :
                /\ tasks' = <<Task(TempPath, "returned", o)>>
                /\ stdin' = <<>>
                /\ raised' = o.raised
                /\ results' = IF o.raised = None THEN <<Relabel(o.result, DisplayPath)>>
                              ELSE <<>>
                /\ stdout' = IF o.raised = None /\ ~call.dry_run THEN <<o.file>>
                             ELSE <<>>
  /\ pc' = "done"
  /\ UNCHANGED <<cache, disk, disk0, world, call, gen, warnings>>

\* core.py 501-506: first = next(gen)
PumpFirst ==
  /\ pc = "ufmt_paths"
  /\ call.paths # <<>>
  /\ call.paths[1] # STDIN
  /\ \E n \in GenNext(gen, 0) :
       /\ gen' = IF n.kind = "item" THEN [n.gen EXCEPT !.pumped = <<n.item>>] ELSE n.gen
       /\ warnings' = warnings + n.warned
       /\ raised' = IF n.kind = "raise" THEN DiscoveryError ELSE None
       /\ pc' = IF n.kind = "item" THEN "second" ELSE "done"
  /\ UNCHANGED <<cache, disk, disk0, world, call, tasks, results, stdin, stdout>>

Inline_Never(n) == FALSE

\* core.py 510-513: StopIteration on the second pump, so fn(first) is called
\* in the calling context
Inline(n) == n.kind = "stop"

\* core.py 508-516: second = next(gen); with only one path, yield fn(first)
PumpSecond ==
  /\ pc = "second"
  /\ \E n \in GenNext(gen, 0) :
       LET first == gen.pumped[1]
       IN  /\ warnings' = warnings + n.warned
           /\ gen' = [n.gen EXCEPT !.pumped = <<>>]
           /\ \E o \in (IF Inline(n)
                          THEN ufmt_file(first, disk[first], call, world.configs)
                          ELSE {NoOutcome(first)}) :
                /\ tasks' = IF Inline(n) THEN <<Task(first, "returned", o)>>
                            ELSE IF n.kind = "item"
                              THEN <<Task(first, "submitted", NoOutcome(first)),
                                     Task(n.item, "submitted", NoOutcome(n.item))>>
                            ELSE <<>>
                /\ disk' = [disk EXCEPT ![first] = IF Inline(n) THEN o.file ELSE @]
                /\ results' = IF Inline(n) /\ o.raised = None THEN <<o.result>>
                              ELSE <<>>
                /\ raised' = IF n.kind = "raise" THEN DiscoveryError
                             ELSE o.raised
           /\ pc' = IF n.kind = "item" THEN "pool" ELSE "done"
  /\ UNCHANGED <<cache, disk0, world, call, stdin, stdout>>

\* core.py 517, trailrunner's run_iter: the next path is pulled from the
\* generator and submitted to the pool
Submit ==
  /\ pc = "pool"
  /\ ~gen.stopped
  /\ \E n \in GenNext(gen, 0) :
       /\ gen' = n.gen
       /\ warnings' = warnings + n.warned
       /\ tasks' = IF n.kind = "item"
                     THEN Append(tasks, Task(n.item, "submitted", NoOutcome(n.item)))
                     ELSE tasks
       /\ raised' = IF n.kind = "raise" THEN DiscoveryError ELSE None
       /\ pc' = IF n.kind = "raise" THEN "done" ELSE "pool"
  /\ UNCHANGED <<cache, disk, disk0, world, call, results, stdin, stdout>>

\* a worker of the pool runs fn(path), which is ufmt_file
Work(i) ==
  /\ tasks[i].state = "submitted"
  /\ LET path == tasks[i].path
     IN  \E o \in ufmt_file(path, disk[path], call, world.configs) :
           /\ tasks' = [tasks EXCEPT ![i] = Task(path, "finished", o)]
           /\ disk' = [disk EXCEPT ![path] = o.file]
  /\ UNCHANGED <<cache, disk0, world, call, pc, gen, results, raised, warnings, stdin, stdout>>

\* core.py 517-518: run_iter hands back what fn returned, or raises what it
\* raised
Yield(i) ==
  /\ pc = "pool"
  /\ tasks[i].state = "finished"
  /\ tasks' = [tasks EXCEPT ![i].state = "returned"]
  /\ raised' = tasks[i].out.raised
  /\ results' = IF tasks[i].out.raised = None THEN Append(results, tasks[i].out.result)
                ELSE results
  /\ pc' = IF tasks[i].out.raised = None THEN "pool" ELSE "done"
  /\ UNCHANGED <<cache, disk, disk0, world, call, gen, warnings, stdin, stdout>>

\* every path was submitted and every result handed back: the generator ends
PoolDone ==
  /\ pc = "pool"
  /\ gen.stopped
  /\ \A i \in DOMAIN tasks : tasks[i].state = "returned"
  /\ pc' = "done"
  /\ UNCHANGED <<cache, disk, disk0, world, call, gen, tasks, results, raised, warnings, stdin, stdout>>

NextPaths ==
  \/ NoPaths
  \/ TooManyStdinPaths
  \/ UfmtStdin
  \/ PumpFirst
  \/ PumpSecond
  \/ Submit
  \/ \E i \in DOMAIN tasks : Work(i)
  \/ \E i \in DOMAIN tasks : Yield(i)
  \/ PoolDone

SpecPaths == InitPaths /\ [][NextPaths]_vars

(* ----------------------- read_file, write_file ------------------------ *)

\* the files read_file and write_file are called on
FileContents == SeqsUpTo(Bytes, MaxFileLen)

\* read_file(path) is about to be called on a file of any content, or on a
\* path with no file
InitRoundTrip ==
  /\ world = AnyWorld
  /\ \E f \in Files, c \in FileContents \cup {Missing} :
       /\ disk = [g \in Files |-> IF g = f THEN c ELSE Missing]
       /\ call = [paths |-> <<f>>, content |-> <<>>, newline |-> LF]
  /\ disk0 = disk
  /\ pc = "read_file"
  /\ gen = NoGen
  /\ tasks = <<>>
  /\ results = <<>>
  /\ raised = None
  /\ warnings = 0
  /\ stdin = <<>>
  /\ stdout = <<>>
  /\ cache = NoCache

\* util.py 54-74: read_file returns the content and the newline style, which
\* become the arguments of write_file; or open raises
ReadFile ==
  /\ pc = "read_file"
  /\ LET raw == disk[call.paths[1]]
     IN  IF raw = Missing
           THEN /\ raised' = "FileNotFoundError"
                /\ pc' = "done"
                /\ UNCHANGED call
           ELSE /\ call' = [call EXCEPT !.content = read_content(raw),
                                        !.newline = read_newline(raw)]
                /\ pc' = "write_file"
                /\ UNCHANGED raised
  /\ UNCHANGED <<cache, disk, disk0, world, gen, tasks, results, warnings, stdin, stdout>>

\* util.py 77-89: write_file(path, content, newline) returns or raises
WriteFile ==
  /\ pc = "write_file"
  /\ LET path == call.paths[1]
     IN  \E fail \in WriteFailures(normalize_result(call.content, call.newline)) :
           /\ disk' = [disk EXCEPT ![path] =
                         write_file(@, call.content, call.newline, fail)]
           /\ raised' = IF fail.at = "none" THEN None ELSE "write_file error"
  /\ pc' = "done"
  /\ UNCHANGED <<cache, disk0, world, call, gen, tasks, results, warnings, stdin, stdout>>

NextRoundTrip == ReadFile \/ WriteFile

SpecRoundTrip == InitRoundTrip /\ [][NextRoundTrip]_vars

(* ----------------------- ufmt_paths, stdin mode ------------------------ *)

\* the path lists that start with the stdin sentinel
StdinLists == {p \in PathLists : p # <<>> /\ p[1] = STDIN}

\* ufmt_paths(paths, ...) has been called with the sentinel in front, any
\* flags and any bytes waiting on standard input
InitStdin ==
  /\ world = SmallWorld
  /\ disk = [g \in Files |-> Missing]
  /\ disk0 = disk
  /\ \E p \in StdinLists, flags \in Flags : call = WithPaths(flags, p)
  /\ pc = "ufmt_paths"
  /\ gen = [rest |-> call.paths, buf |-> <<>>, pumped |-> <<>>, stopped |-> FALSE]
  /\ tasks = <<>>
  /\ results = <<>>
  /\ raised = None
  /\ warnings = 0
  /\ stdin \in Contents
  /\ stdout = <<>>
  /\ cache = NoCache

NextStdin == TooManyStdinPaths \/ UfmtStdin

SpecStdin == InitStdin /\ [][NextStdin]_vars

(* --------------- ufmt_paths, the sentinel among the paths -------------- *)

\* path lists with the stdin sentinel somewhere and up to MaxPaths files
MixedLists ==
  {p \in SeqsUpTo(Files \cup {STDIN}, MaxPaths + 1) :
     /\ p = <<>> \/ \E k \in DOMAIN p : p[k] = STDIN
     /\ Cardinality({k \in DOMAIN p : p[k] # STDIN}) <= MaxPaths}

\* one project configuration, one rewrite, no processors
MixedWorld ==
  [configs |-> {c \in ConfigOutcomes :
                  ~c.raises /\ c.config = [sorter |-> "usort", formatter |-> "black"]},
   rewrites |-> {<<"a", "LF">>}, appends |-> {}, skips |-> {<<>>},
   discovery |-> {"ok", "raise"},
   excludes |-> NoExcludes]

MixedFlags == {f \in PathsFlags : f.pre_processor = None}

\* ufmt_paths(paths, ...) has been called with bytes waiting on standard input
InitMixed ==
  /\ world = MixedWorld
  /\ disk \in [Files -> {<<"CR", "LF">>, Missing}]
  /\ disk0 = disk
  /\ \E p \in MixedLists, flags \in MixedFlags : call = WithPaths(flags, p)
  /\ pc = "ufmt_paths"
  /\ gen = [rest |-> call.paths, buf |-> <<>>, pumped |-> <<>>, stopped |-> FALSE]
  /\ tasks = <<>>
  /\ results = <<>>
  /\ raised = None
  /\ warnings = 0
  /\ stdin = <<"a", "LF">>
  /\ stdout = <<>>
  /\ cache = NoCache

SpecMixed == InitMixed /\ [][NextPaths]_vars

(* ------------------ ufmt_paths, the workers of the pool ----------------- *)

\* the input paths of a run over files alone
FileLists == {p \in PathLists : p # <<>> /\ \A k \in DOMAIN p : p[k] # STDIN}

\* a world in which no config factory raises
QuietWorld ==
  [configs |-> {c \in SmallWorld.configs : ~c.raises},
   rewrites |-> SmallWorld.rewrites, appends |-> {}, skips |-> {},
   discovery |-> {"ok"},
   excludes |-> NoExcludes]

RaceFlags == {f \in PathsFlags : f.pre_processor = None}

\* ufmt_paths(paths, ...) has been called on files alone
InitRace ==
  /\ world = QuietWorld
  /\ disk \in [Files -> PathsContents \cup {Missing}]
  /\ disk0 = disk
  /\ \E p \in FileLists, flags \in RaceFlags : call = WithPaths(flags, p)
  /\ pc = "ufmt_paths"
  /\ gen = [rest |-> call.paths, buf |-> <<>>, pumped |-> <<>>, stopped |-> FALSE]
  /\ tasks = <<>>
  /\ results = <<>>
  /\ raised = None
  /\ warnings = 0
  /\ stdin = <<>>
  /\ stdout = <<>>
  /\ cache = NoCache

\* a worker of the pool enters ufmt_file and read_file returns the bytes the
\* file holds now (core.py 281, util.py read_file)
Load(i) ==
  /\ tasks[i].state = "submitted"
  /\ LET path == tasks[i].path
     IN  tasks' = [tasks EXCEPT ![i] = Task(path, "loaded",
                                            [NoOutcome(path) EXCEPT !.old = disk[path]])]
  /\ UNCHANGED <<cache, disk, disk0, world, call, pc, gen, results, raised, warnings, stdin, stdout>>

\* the worker goes on with the bytes it read: ufmt_bytes, then write_file on
\* whatever the file holds by now (core.py 282-324)
Store(i) ==
  /\ tasks[i].state = "loaded"
  /\ LET path == tasks[i].path
     IN  \E o \in ufmt_file(path, tasks[i].out.old, call, world.configs) :
           /\ tasks' = [tasks EXCEPT ![i] = Task(path, "finished", o)]
           /\ disk' = IF o.fail.at \in {"none", "write"}
                        THEN [disk EXCEPT ![path] = o.file] ELSE disk
  /\ UNCHANGED <<cache, disk0, world, call, pc, gen, results, raised, warnings, stdin, stdout>>

NextRace ==
  \/ PumpFirst
  \/ PumpSecond
  \/ Submit
  \/ \E i \in DOMAIN tasks : Load(i)
  \/ \E i \in DOMAIN tasks : Store(i)
  \/ \E i \in DOMAIN tasks : Yield(i)
  \/ PoolDone

SpecRace == InitRace /\ [][NextRace]_vars

(* ---------------------- ufmt_paths over directories --------------------- *)

\* the directories a run may be given
TreeLists ==
  {<<"proj">>, <<"lib">>, <<"proj/foo/frob">>, <<"lib", "proj/foo/frob">>,
   <<"proj/foo/frob", "lib">>, <<"lib", "lib">>}

\* each project's configuration has the excludes of FAKE_CONFIG or none
TreeWorlds ==
  {[QuietWorld EXCEPT !.excludes = [p \in Projects |-> IF p = "." THEN <<>> ELSE e[p]]]
     : e \in [{"proj", "lib"} -> ExcludeLists]}

\* ufmt_paths(paths, ...) has been called on directories of the tree, whose
\* files all need formatting or all do not
InitTree ==
  /\ world \in TreeWorlds
  /\ \E c \in PathsContents : disk = [f \in TreeFiles |-> c]
  /\ disk0 = disk
  /\ \E p \in TreeLists, flags \in RaceFlags : call = WithPaths(flags, p)
  /\ pc = "ufmt_paths"
  /\ gen = [rest |-> call.paths, buf |-> <<>>, pumped |-> <<>>, stopped |-> FALSE]
  /\ tasks = <<>>
  /\ results = <<>>
  /\ raised = None
  /\ warnings = 0
  /\ stdin = <<>>
  /\ stdout = <<>>
  /\ cache = NoCache

NextTree ==
  \/ PumpFirst
  \/ PumpSecond
  \/ Submit
  \/ \E i \in DOMAIN tasks : Work(i)
  \/ \E i \in DOMAIN tasks : Yield(i)
  \/ PoolDone

SpecTree == InitTree /\ [][NextTree]_vars

(* ------------- ufmt_paths over more paths than the two pumps ------------ *)

\* lists of one, two and three files: with three, the pool pulls the last
\* from the generator after the two ufmt_paths pulled itself
PoolLists ==
  {<<"f1">>, <<"f1", "f2">>, <<"f1", "f2", "f1">>, <<"f2", "f1", "f2">>}

\* ufmt_paths(paths, ...) has been called on files that need formatting or
\* are not there
InitPool ==
  /\ world = MixedWorld
  /\ disk \in [Files -> {<<"CR", "LF">>, Missing}]
  /\ disk0 = disk
  /\ \E p \in PoolLists, flags \in MixedFlags : call = WithPaths(flags, p)
  /\ pc = "ufmt_paths"
  /\ gen = [rest |-> call.paths, buf |-> <<>>, pumped |-> <<>>, stopped |-> FALSE]
  /\ tasks = <<>>
  /\ results = <<>>
  /\ raised = None
  /\ warnings = 0
  /\ stdin = <<>>
  /\ stdout = <<>>
  /\ cache = NoCache

SpecPool == InitPool /\ [][NextTree]_vars

(* ------------------- ufmt_paths with fair scheduling -------------------- *)

\* discovery goes through; the config factories ufmt_file calls may raise
FairWorld == [SmallWorld EXCEPT !.discovery = {"ok"}]

\* ufmt_paths(paths, ...) has been called on one, two or three files
InitFair ==
  /\ world = FairWorld
  /\ disk \in [Files -> {<<"CR", "LF">>, Missing}]
  /\ disk0 = disk
  /\ \E p \in PoolLists, flags \in MixedFlags : call = WithPaths(flags, p)
  /\ pc = "ufmt_paths"
  /\ gen = [rest |-> call.paths, buf |-> <<>>, pumped |-> <<>>, stopped |-> FALSE]
  /\ tasks = <<>>
  /\ results = <<>>
  /\ raised = None
  /\ warnings = 0
  /\ stdin = <<>>
  /\ stdout = <<>>
  /\ cache = NoCache

\* the caller keeps iterating the generator ufmt_paths returns, the pool
\* keeps pulling paths and handing back results, and every worker that was
\* given a path gets to run and every call it makes returns or raises
Fairness ==
  /\ WF_vars(PumpFirst)
  /\ WF_vars(PumpSecond)
  /\ WF_vars(Submit)
  /\ \A i \in 1..3 : WF_vars(i \in DOMAIN tasks /\ Work(i))
  /\ \A i \in 1..3 : WF_vars(i \in DOMAIN tasks /\ Yield(i))
  /\ WF_vars(PoolDone)

SpecFair == InitFair /\ [][NextTree]_vars /\ Fairness

(* ------------------------------ load_config ----------------------------- *)

\* types.py 82-88
UfmtConfig(project_root, pyproject_path, excludes, formatter, sorter) ==
  [project_root |-> project_root, pyproject_path |-> pyproject_path,
   excludes |-> excludes, formatter |-> formatter, sorter |-> sorter]

\* a value of a tool.ufmt key: not given, a string, or a list of strings
Absent == [type |-> "absent", value |-> <<>>]
Str(v) == [type |-> "str", value |-> <<v>>]
List(v) == [type |-> "list", value |-> v]

\* the tool.ufmt tables of tests/config.py: excludes, formatter and sorter,
\* each given well, given badly or not given, and keys ufmt does not know
Tables ==
  [kind : {"table"},
   excludes : {Absent, List(<<>>), List(<<"a", "b">>), Str("fixtures/")},
   formatter : {Absent, Str("ruff-api"), Str("garbage")},
   sorter : {Absent, Str("skip"), Str("garbage")},
   unknown : {{}, {"unknown_element", "hello_world"}}]

\* what may be behind <root>/pyproject.toml
NoFile == [kind |-> "no file"]
Pyprojects ==
  Tables \cup {NoFile, [kind |-> "invalid toml"], [kind |-> "no tool.ufmt"],
               [kind |-> "tool.ufmt is a string"], [kind |-> "tool.ufmt is an array"]}

EmptyTable ==
  [kind |-> "table", excludes |-> Absent, formatter |-> Absent, sorter |-> Absent,
   unknown |-> {}]

\* how load_config ends: with an exception, or with a Configuration and the
\* number of warnings logged on the way
Raises(e) ==
  [raised |-> e, config |-> UfmtConfig(None, None, <<>>, None, None), warned |-> 0]
Returns(config, warned) == [raised |-> None, config |-> config, warned |-> warned]

NoPyproject_Rooted(root, config_path) ==
  Returns(UfmtConfig(root, config_path, <<>>, "black", "usort"), 0)

\* config.py 58: return UfmtConfig()
NoPyproject(root, config_path) ==
  Returns(UfmtConfig(None, None, <<>>, "black", "usort"), 0)

Section_Strict(doc) ==
  IF doc.kind = "table" THEN [table |-> doc, warned |-> 0, raised |-> None]
  ELSE IF doc.kind = "no tool.ufmt" THEN [table |-> EmptyTable, warned |-> 0, raised |-> None]
  ELSE [table |-> EmptyTable, warned |-> 0,
        raised |-> "ValueError: tool.ufmt is not a mapping"]

\* config.py 33-36: pyproject.get("tool", {}).get("ufmt", {}); what is not a
\* mapping is reported and replaced by {}
Section(doc) ==
  IF doc.kind = "table" THEN [table |-> doc, warned |-> 0, raised |-> None]
  ELSE IF doc.kind = "no tool.ufmt" THEN [table |-> EmptyTable, warned |-> 0, raised |-> None]
  ELSE [table |-> EmptyTable, warned |-> 1, raised |-> None]

ConfigExcludes_AnySequence(v, config_path) ==
  [raised |-> None, value |-> v.value]

\* config.py 38-44: config.pop("excludes", []) has to be a sequence and not
\* a string
ConfigExcludes(v, config_path) ==
  IF v.type = "str"
    THEN [raised |-> "ValueError: " \o config_path \o ": excludes must be a list of strings",
          value |-> <<>>]
    ELSE [raised |-> None, value |-> v.value]

\* config.py 46, Formatter(config.pop("formatter", UfmtConfig.formatter)):
\* the member of the enumeration with that value, or ValueError
Selector(v, members, default, enum) ==
  IF v.type = "absent" THEN [raised |-> None, value |-> default]
  ELSE IF v.value[1] \in members THEN [raised |-> None, value |-> v.value[1]]
  ELSE [raised |-> "ValueError: " \o PyRepr(v.value[1]) \o " is not a valid " \o enum,
        value |-> default]

SorterSelector_Lenient(v) ==
  [raised |-> None,
   value |-> IF v.type = "str" /\ v.value[1] \in Sorters THEN v.value[1] ELSE "usort"]

\* the sorter selector is read as the formatter selector is: a member of
\* types.Sorter, or an error naming the value
SorterSelector(v) == Selector(v, Sorters, "usort", "Sorter")

\* config.py 48-49: the keys left in the table are reported in one warning
UnknownKeys(table) == IF table.unknown # {} THEN 1 ELSE 0

\* config.py 27-58 on the document behind config_path
Resolve(root, config_path, doc) ==
  IF doc.kind = "no file" THEN NoPyproject(root, config_path)
  ELSE IF doc.kind = "invalid toml" THEN Raises("tomlkit.exceptions.ParseError")
  ELSE
    LET section == Section(doc)
        table == section.table
        excludes == ConfigExcludes(table.excludes, config_path)
        formatter == Selector(table.formatter, Formatters, "black", "Formatter")
        sorter == SorterSelector(table.sorter)
    IN  IF section.raised # None THEN Raises(section.raised)
        ELSE IF excludes.raised # None THEN Raises(excludes.raised)
        ELSE IF formatter.raised # None THEN Raises(formatter.raised)
        ELSE IF sorter.raised # None THEN Raises(sorter.raised)
        ELSE Returns(UfmtConfig(root, config_path, excludes.value, formatter.value,
                                sorter.value),
                     section.warned + UnknownKeys(table))

\* config.py 27-30: the root given, or the project root of path, or of the
\* working directory
RootOf(key) ==
  IF key[2] # None THEN key[2] ELSE ProjectOf(IF key[1] = None THEN "." ELSE key[1])

PyprojectOf(key) == RootOf(key) \o "/pyproject.toml"

\* the body of load_config, called with key = (path, root)
load_config(key) == Resolve(RootOf(key), PyprojectOf(key), disk[PyprojectOf(key)])

\* lru_cache, least recently used first: has key been memoized
Hit_Never(key) == FALSE

\* config.py 25
Hit(key) == \E k \in DOMAIN cache : cache[k].key = key

\* config.py 25: key becomes the most recently used entry, and the least
\* recently used one goes when there are more than the cache holds
Memoize(entries, key, config) ==
  LET kept == Append(SelectSeq(entries, LAMBDA e : e.key # key),
                     [key |-> key, config |-> config])
  IN  IF Len(kept) > MaxCached THEN Tail(kept) ELSE kept

\* the (path, root) pairs load_config is called with
ConfigKeys ==
  {<<"proj/foo/foo.py", None>>, <<"lib/__init__.py", None>>, <<"lib/__init__.py", "proj">>,
   <<None, None>>}

\* a process with nothing memoized, in which proj has any pyproject.toml and
\* the other roots have none
InitConfig ==
  /\ world = AnyWorld
  /\ \E doc \in Pyprojects :
       disk = [f \in {PyprojectOf(k) : k \in ConfigKeys} |->
                 IF f = "proj/pyproject.toml" THEN doc ELSE NoFile]
  /\ disk0 = disk
  /\ call = WithPaths(CHOOSE f \in Flags : TRUE, <<>>)
  /\ pc = "load_config"
  /\ gen = NoGen
  /\ tasks = <<>>
  /\ results = <<>>
  /\ raised = None
  /\ warnings = 0
  /\ stdin = <<>>
  /\ stdout = <<>>
  /\ cache = NoCache

\* one call in the log: what was called, with what key, how it ended, how
\* many warnings it logged and what was behind the pyproject.toml of the key
\* at the time
Called(fn, key, out, doc) ==
  [call |-> fn, key |-> key, raised |-> out.raised, config |-> out.config,
   warned |-> out.warned, doc |-> doc]

\* config.py 25-58: load_config(path, root), through its cache
LoadConfig ==
  /\ pc = "load_config"
  /\ Len(tasks) < MaxCalls
  /\ \E key \in ConfigKeys :
       LET out == IF Hit(key)
                    THEN Returns((CHOOSE e \in {cache[k] : k \in DOMAIN cache} :
                                    e.key = key).config, 0)
                    ELSE load_config(key)
       IN  /\ tasks' = Append(tasks, Called("load_config", key, out, disk[PyprojectOf(key)]))
           /\ raised' = out.raised
           /\ warnings' = warnings + out.warned
           /\ cache' = IF out.raised = None THEN Memoize(cache, key, out.config) ELSE cache
  /\ UNCHANGED <<disk, disk0, world, call, pc, gen, results, stdin, stdout>>

NextConfig == LoadConfig

SpecConfig == InitConfig /\ [][NextConfig]_vars

(* ------------------------- ufmt_paths with a root ----------------------- *)

\* a project configuration that excludes files and selects the other
\* backends, or no pyproject.toml
RootPyprojects ==
  {NoFile,
   [EmptyTable EXCEPT !.excludes = List(<<"foo/frob/", "__init__.py">>),
                      !.formatter = Str("ruff-api"), !.sorter = Str("skip")]}

RootLists == {<<"lib">>, <<"proj/foo/frob">>, <<"proj/foo/frob", "lib">>}

\* core.py 476-486: the keyword arguments bound to ufmt_file by partial() do
\* not include root, so ufmt_file runs with its default (core.py 234)
FnRoot == None

\* load_config(path, root) through its cache (config.py 25)
CachedConfig(key) ==
  IF Hit(key)
    THEN Returns((CHOOSE e \in {cache[k] : k \in DOMAIN cache} : e.key = key).config, 0)
    ELSE load_config(key)

\* ufmt_paths(paths, root=R, ...) has been called on directories of the
\* tree, with or without a root; proj and lib have a pyproject.toml or none
InitRoot ==
  /\ world = QuietWorld
  /\ \E docs \in [{"proj/pyproject.toml", "lib/pyproject.toml"} -> RootPyprojects] :
       disk = [f \in TreeFiles \cup {"proj/pyproject.toml", "lib/pyproject.toml",
                                     "./pyproject.toml"} |->
                 IF f \in TreeFiles THEN <<"CR", "LF">>
                 ELSE IF f = "./pyproject.toml" THEN NoFile ELSE docs[f]]
  /\ disk0 = disk
  /\ \E p \in RootLists, flags \in RaceFlags, root \in {None, "proj", "lib"} :
       call = [paths |-> p, root |-> root, dry_run |-> flags.dry_run, diff |-> flags.diff,
               return_content |-> flags.return_content,
               pre_processor |-> flags.pre_processor,
               post_processor |-> flags.post_processor]
  /\ pc = "ufmt_paths"
  /\ gen = [rest |-> call.paths, buf |-> <<>>, pumped |-> <<>>, stopped |-> FALSE]
  /\ tasks = <<>>
  /\ results = <<>>
  /\ raised = None
  /\ warnings = 0
  /\ stdin = <<>>
  /\ stdout = <<>>
  /\ cache = NoCache

\* core.py 469-474: generate_paths resolves the configuration of the next
\* input path with the root ufmt_paths was given and walks the path with its
\* excludes
Generate ==
  /\ pc = "ufmt_paths"
  /\ gen.rest # <<>>
  /\ LET path == Head(gen.rest)
         key == <<path, call.root>>
         out == CachedConfig(key)
     IN  /\ tasks' = Append(tasks, Called("generate_paths", key, out, disk[PyprojectOf(key)]))
         /\ warnings' = warnings + out.warned
         /\ cache' = IF out.raised = None THEN Memoize(cache, key, out.config) ELSE cache
         /\ raised' = out.raised
         /\ pc' = IF out.raised = None THEN pc ELSE "done"
         /\ gen' = [gen EXCEPT !.rest = Tail(@),
                               !.buf = @ \o Walk(path, out.config.excludes)]
  /\ UNCHANGED <<disk, disk0, world, call, results, stdin, stdout>>

\* core.py 476-486, 513 and 517: fn(path), in the calling context or in a
\* worker, is ufmt_file(path, ...) with the bound keyword arguments; it
\* resolves its configuration at core.py 269
FileTask ==
  /\ pc = "ufmt_paths"
  /\ gen.buf # <<>>
  /\ LET path == Head(gen.buf)
         key == <<path, FnRoot>>
         out == CachedConfig(key)
         c == [raises |-> out.raised # None,
               config |-> [sorter |-> out.config.sorter, formatter |-> out.config.formatter]]
     IN  /\ tasks' = Append(tasks, Called("ufmt_file", key, out, disk[PyprojectOf(key)]))
         /\ warnings' = warnings + out.warned
         /\ cache' = IF out.raised = None THEN Memoize(cache, key, out.config) ELSE cache
         /\ gen' = [gen EXCEPT !.buf = Tail(@)]
         /\ \E o \in ufmt_file(path, disk[path], call, {c}) :
              /\ disk' = [disk EXCEPT ![path] = o.file]
              /\ results' = IF o.raised = None THEN Append(results, o.result) ELSE results
              /\ raised' = o.raised
              /\ pc' = IF o.raised = None THEN pc ELSE "done"
  /\ UNCHANGED <<disk0, world, call, stdin, stdout>>

\* every path was walked and every file formatted
RootDone ==
  /\ pc = "ufmt_paths"
  /\ gen.rest = <<>>
  /\ gen.buf = <<>>
  /\ pc' = "done"
  /\ gen' = [gen EXCEPT !.stopped = TRUE]
  /\ UNCHANGED <<cache, disk, disk0, world, call, tasks, results, raised, warnings, stdin, stdout>>

NextRoot == Generate \/ FileTask \/ RootDone

SpecRoot == InitRoot /\ [][NextRoot]_vars

(* ----------------- ufmt_bytes and the configuration objects ------------- *)

\* members of black.TargetVersion
TargetVersions == {"PY38", "PY39"}

\* a black.Mode as make_black_config builds it (util.py 18-35): target
\* versions from pyproject.toml, none when it names none
Mode(target_versions, is_pyi) ==
  [target_versions |-> target_versions, is_pyi |-> is_pyi, line_length |-> 88]

\* core.py 146-147: dataclasses.replace copies the fields of the Mode, and
\* the copy's target_versions is the same set object as the original's
ModeUsed(black_config, path) ==
  IF path = "f1.pyi" THEN [black_config EXCEPT !.is_pyi = TRUE] ELSE black_config

\* str() of a TargetVersion member, and of the set of core.py 165
TargetVersionStr(v) == "TargetVersion." \o v
DefaultTargetStr == "{<TargetVersion.PY38: 8>}"

\* core.py 160-169: the options ruff_api.format_string gets when
\* target_versions.pop() returned v, or when target_versions was empty
FormatOptions(mode, v) ==
  [target_version |-> IF mode.target_versions = {} THEN DefaultTargetStr
                      ELSE TargetVersionStr(v),
   line_width |-> mode.line_length]

\* core.py 163: set.pop() takes v out of the set the caller's Mode holds
Popped(black_config, v) == [black_config EXCEPT !.target_versions = @ \ {v}]

\* one ufmt_bytes call in the log: the caller's black_config before and after
\* it, and the options the formatter backend was called with (NoOptions when
\* the sorter raised first)
NoOptions == [at |-> "not called"]

BytesCall(before, after, options) ==
  [before |-> before, after |-> after, options |-> options]

\* a caller holds one black_config and one ufmt_config and is about to call
\* ufmt_bytes on the same path and content, MaxCalls times in a row
InitModes ==
  /\ world = QuietWorld
  /\ disk = [g \in Files |-> Missing]
  /\ disk0 = disk
  /\ \E path \in {"f1.py", "f1.pyi"}, formatter \in Formatters, sorter \in Sorters,
        tv \in SUBSET TargetVersions :
       call = [paths |-> <<path>>, content |-> <<"CR", "LF">>,
               ufmt_config |-> [sorter |-> sorter, formatter |-> formatter],
               black_config |-> Mode(tv, FALSE)]
  /\ pc = "ufmt_bytes"
  /\ gen = NoGen
  /\ tasks = <<>>
  /\ results = <<>>
  /\ raised = None
  /\ warnings = 0
  /\ stdin = <<>>
  /\ stdout = <<>>
  /\ cache = NoCache

\* core.py 101-180: one ufmt_bytes call with the caller's objects. The sorter
\* returns or raises; then the formatter is called with the Mode (black) or
\* with options made from it (ruff_api).
UfmtBytesCall ==
  /\ pc = "ufmt_bytes"
  /\ Len(tasks) < MaxCalls
  /\ LET bc == call.black_config
         mode == ModeUsed(bc, call.paths[1])
     IN  \E sorted \in (IF call.ufmt_config.sorter = "skip" THEN {TRUE} ELSE BOOLEAN) :
           IF ~sorted
             THEN /\ tasks' = Append(tasks, BytesCall(bc, bc, NoOptions))
                  /\ raised' = "sorter error"
                  /\ UNCHANGED call
           ELSE IF call.ufmt_config.formatter = "black"
             THEN /\ tasks' = Append(tasks, BytesCall(bc, bc, mode))
                  /\ raised' = None
                  /\ UNCHANGED call
           ELSE \E v \in (IF bc.target_versions = {} THEN {"PY38"} ELSE bc.target_versions) :
                  /\ tasks' = Append(tasks, BytesCall(bc, Popped(bc, v), FormatOptions(mode, v)))
                  /\ raised' = None
                  /\ call' = [call EXCEPT !.black_config = Popped(bc, v)]
  /\ UNCHANGED <<cache, disk, disk0, world, pc, gen, results, warnings, stdin, stdout>>

NextModes == UfmtBytesCall

SpecModes == InitModes /\ [][NextModes]_vars

(* ------------------------------ ResultCache ----------------------------- *)

\* the value of a byte
ByteValue(b) == CASE b = "a" -> 97 [] b = "CR" -> 13 [] b = "LF" -> 10

\* zlib.adler32 (util.py 144, 161): a is one plus the sum of the bytes and b
\* the sum of the values a took, both modulo 65521
RECURSIVE Adler(_, _, _)
Adler(c, a, b) ==
  IF c = <<>> THEN b * 65536 + a
  ELSE LET a2 == (a + ByteValue(Head(c))) % 65521
       IN  Adler(Tail(c), a2, (b + a2) % 65521)

adler32(content) == Adler(content, 1, 0)

\* util.py 109: the threshold, in clock ticks
Threshold == 1

\* the contents a run marks and checks
CachedContents ==
  {<<"a", "LF">>, <<"CR", "LF", "LF", "CR">>, <<"LF", "CR", "CR", "LF">>}

\* a row of the table clean (util.py 122-127)
Row(path, crc, seen) == [path |-> path, crc |-> crc, seen |-> seen]

\* one call in the log: the method, its arguments, what it returned, the
\* clock at the time and the table after it
CacheCall(method, path, content, returned, rows) ==
  [call |-> method, path |-> path, content |-> content, returned |-> returned,
   at |-> world.now, rows |-> rows]

\* a ResultCache was made and prepared: the table is empty
InitResultCache ==
  /\ world = [now |-> 0]
  /\ disk = [g \in Files |-> Missing]
  /\ disk0 = disk
  /\ call = [threshold |-> Threshold]
  /\ pc = "ResultCache"
  /\ gen = NoGen
  /\ tasks = <<>>
  /\ results = <<>>
  /\ raised = None
  /\ warnings = 0
  /\ stdin = <<>>
  /\ stdout = <<>>
  /\ cache = {}

\* time.time() moves on
Tick ==
  /\ pc = "ResultCache"
  /\ world.now < MaxTicks
  /\ world' = [world EXCEPT !.now = @ + 1]
  /\ UNCHANGED <<cache, disk, disk0, call, pc, gen, tasks, results, raised, warnings, stdin,
                 stdout>>

\* util.py 160-168: insert (path, crc, now), or set seen of the row that has
\* this path and crc
Mark ==
  /\ pc = "ResultCache"
  /\ Len(tasks) < MaxCalls
  /\ \E path \in Files, content \in CachedContents :
       LET crc == adler32(content)
           rows == {r \in cache : ~(r.path = path /\ r.crc = crc)}
                     \cup {Row(path, crc, world.now)}
       IN  /\ cache' = rows
           /\ tasks' = Append(tasks, CacheCall("mark", path, content, None, rows))
  /\ UNCHANGED <<disk, disk0, world, call, pc, gen, results, raised, warnings, stdin, stdout>>

\* util.py 143-158: a row with this path and crc makes the answer True and
\* has its seen set to now
Check ==
  /\ pc = "ResultCache"
  /\ Len(tasks) < MaxCalls
  /\ \E path \in Files, content \in CachedContents :
       LET crc == adler32(content)
           found == \E r \in cache : r.path = path /\ r.crc = crc
           rows == {IF r.path = path /\ r.crc = crc THEN Row(path, crc, world.now) ELSE r
                      : r \in cache}
       IN  /\ cache' = rows
           /\ tasks' = Append(tasks, CacheCall("check", path, content,
                                               IF found THEN PyTrue ELSE PyFalse, rows))
  /\ UNCHANGED <<disk, disk0, world, call, pc, gen, results, raised, warnings, stdin, stdout>>

\* util.py 131-141: delete from clean where seen < now - threshold
Cleanup ==
  /\ pc = "ResultCache"
  /\ Len(tasks) < MaxCalls
  /\ LET rows == {r \in cache : ~(r.seen + call.threshold < world.now)}
     IN  /\ cache' = rows
         /\ tasks' = Append(tasks, CacheCall("cleanup", None, <<>>, None, rows))
  /\ UNCHANGED <<disk, disk0, world, call, pc, gen, results, raised, warnings, stdin, stdout>>

NextResultCache == Tick \/ Mark \/ Check \/ Cleanup

SpecResultCache == InitResultCache /\ [][NextResultCache]_vars

(* --------------------------- the ufmt commands -------------------------- *)

\* cli.py 130-178: the keyword arguments each command gives ufmt_paths. The
\* commands pass no processor; pre_processor is there for the callers of
\* ufmt_paths and echo_results that have one, whose Results can be skipped
\* ones (tests/cli.py 170-180)
CommandCall(command, paths, pre_processor) ==
  [command |-> command, paths |-> paths,
   dry_run |-> command \in {"check", "diff"}, diff |-> command = "diff",
   return_content |-> FALSE, pre_processor |-> pre_processor, post_processor |-> None]

\* the files named on the command line, each at most once
CommandLists == {<<>>, <<"f1">>, <<"f2">>, <<"f1", "f2">>, <<"f2", "f1">>}

\* cli.py 42-71: the counters of echo_results; a Result counts once, as an
\* error, else as skipped, else as written or changed, else as clean
echo_results(rs) ==
  LET errors == {k \in DOMAIN rs : rs[k].error # None}
      skips == {k \in DOMAIN rs \ errors : rs[k].skipped # PyFalse}
      changes == {k \in (DOMAIN rs \ errors) \ skips : rs[k].changed}
      written == {k \in changes : rs[k].written}
  IN  [changed |-> Cardinality(changes \ written) + Cardinality(written),
       error |-> Cardinality(errors)]

ExitsOne_OnChange(command, counts) == counts.changed # 0 \/ counts.error # 0

\* cli.py 140-141, 161-162 and 176-177: the condition of ctx.exit(1)
ExitsOne(command, counts) ==
  IF command = "format" THEN counts.error # 0
  ELSE counts.changed # 0 \/ counts.error # 0

\* a command is about to run on files that are there or not
InitCli ==
  /\ world = SmallWorld
  /\ disk \in [Files -> PathsContents \cup {Missing}]
  /\ disk0 = disk
  /\ \E command \in {"check", "diff", "format"}, p \in CommandLists,
        pre_processor \in Processors :
       call = CommandCall(command, p, pre_processor)
  /\ pc = "cli"
  /\ gen = NoGen
  /\ tasks = <<>>
  /\ results = <<>>
  /\ raised = None
  /\ warnings = 0
  /\ stdin = <<>>
  /\ stdout = <<>>
  /\ cache = NoCache

\* cli.py 130-178: results = ufmt_paths(paths, ...), echo_results(results),
\* ctx.exit(1) or return. ufmt_file runs on every file that is there; an
\* exception that comes out of ufmt_paths comes out of the command.
Command(command) ==
  /\ pc = "cli"
  /\ call.command = command
  /\ LET files == SelectSeq(call.paths, LAMBDA f : disk[f] # Missing)
         All == UNION {ufmt_file(f, disk[f], call, world.configs) : f \in Files}
     IN  \E outs \in [DOMAIN files -> All] :
           /\ \A k \in DOMAIN files :
                outs[k] \in ufmt_file(files[k], disk[files[k]], call, world.configs)
           /\ LET failed == {k \in DOMAIN files : outs[k].raised # None}
                  n == IF failed = {} THEN Len(files)
                       ELSE (CHOOSE k \in failed : \A j \in failed : k <= j) - 1
                  rs == [k \in 1..n |-> outs[k].result]
              IN  /\ tasks' = [k \in DOMAIN files |-> Task(files[k], "returned", outs[k])]
                  /\ disk' = [f \in Files |->
                                IF \E k \in DOMAIN files : files[k] = f
                                  THEN outs[CHOOSE k \in DOMAIN files : files[k] = f].file
                                  ELSE disk[f]]
                  /\ results' = rs
                  /\ raised' = IF failed # {} THEN outs[n + 1].raised
                               ELSE IF ExitsOne(command, echo_results(rs)) THEN "Exit(1)"
                               ELSE None
  /\ pc' = "done"
  /\ UNCHANGED <<cache, disk0, world, call, gen, warnings, stdin, stdout>>

NextCli == Command("check") \/ Command("diff") \/ Command("format")

SpecCli == InitCli /\ [][NextCli]_vars

(* ----------------- load_config while pyproject.toml changes -------------- *)

\* what proj/pyproject.toml holds at one time or another
EditedPyprojects ==
  {NoFile, [EmptyTable EXCEPT !.excludes = List(<<"a", "b">>)]}

InitCache ==
  /\ InitConfig
  /\ disk["proj/pyproject.toml"] \in EditedPyprojects

\* somebody writes, replaces or removes proj/pyproject.toml
EditPyproject ==
  /\ pc = "load_config"
  /\ \E doc \in EditedPyprojects \ {disk["proj/pyproject.toml"]} :
       disk' = [disk EXCEPT !["proj/pyproject.toml"] = doc]
  /\ UNCHANGED <<cache, disk0, world, call, pc, gen, tasks, results, raised, warnings, stdin,
                 stdout>>

\* tests/config.py 27-29: load_config.cache_clear()
CacheClear ==
  /\ pc = "load_config"
  /\ Len(tasks) < MaxCalls
  /\ cache' = NoCache
  /\ tasks' = Append(tasks, Called("cache_clear", <<None, None>>,
                                   Returns(UfmtConfig(None, None, <<>>, None, None), 0),
                                   NoFile))
  /\ UNCHANGED <<disk, disk0, world, call, pc, gen, results, raised, warnings, stdin, stdout>>

NextCache ==
  \/ LoadConfig
  \/ EditPyproject
  \/ CacheClear

SpecCache == InitCache /\ [][NextCache]_vars

(* ----------------------- ufmt_bytes, step by step ---------------------- *)

\* the processors and backends called so far in this ufmt_bytes call
Calls == [k \in DOMAIN tasks |-> tasks[k].stage]

\* ufmt_bytes(path, content, ufmt_config=..., pre_processor=...,
\* post_processor=...) has been called: content is the local variable the
\* stages reassign, src the bytes the caller passed
InitBytes ==
  /\ world = [AnyWorld EXCEPT !.appends = Appends]
  /\ \E c \in Contents, config \in UfmtConfigs, pre, post \in Processors :
       call = [paths |-> <<"f1">>, src |-> c, content |-> c, ufmt_config |-> config,
               pre_processor |-> pre, post_processor |-> post]
  /\ disk = [g \in Files |-> Missing]
  /\ disk0 = disk
  /\ pc = "pre_processor"
  /\ gen = NoGen
  /\ tasks = <<>>
  /\ results = <<>>
  /\ raised = None
  /\ warnings = 0
  /\ stdin = <<>>
  /\ stdout = <<>>
  /\ cache = NoCache

\* One stage of ufmt_bytes, given the content `given`: it is not called, or
\* it returns and content is reassigned, or it raises out of ufmt_bytes.
Step(at, given, outcomes, then) ==
  /\ pc = at
  /\ \E p \in outcomes :
       /\ tasks' = IF p.calls = Calls THEN tasks
                    ELSE Append(tasks, [stage |-> p.calls[Len(p.calls)], given |-> given,
                                        kind |-> p.kind, returned |-> p.content])
       /\ call' = IF p.kind = "ok" THEN [call EXCEPT !.content = p.content] ELSE call
       /\ raised' = IF p.kind = "ok" THEN None ELSE p.info
       /\ pc' = IF p.kind = "ok" THEN then ELSE "done"
  /\ UNCHANGED <<cache, disk, disk0, world, gen, results, warnings, stdin, stdout>>

\* core.py 102-103
PreProcess ==
  Step("pre_processor", call.content,
       ProcessorOutcomes(Running(call.content, Calls), call.pre_processor,
                         "pre_processor"),
       "sorter")

SortOn(given) ==
  Step("sorter", given, SorterOutcomes(Running(given, Calls), call.ufmt_config.sorter),
       "formatter")

Sort_OnOriginal == SortOn(call.src)

\* core.py 105-144
Sort == SortOn(call.content)

\* core.py 149-175
Format ==
  Step("formatter", call.content,
       FormatterOutcomes(Running(call.content, Calls), call.ufmt_config.formatter),
       "post_processor")

\* core.py 177-178
PostProcess ==
  Step("post_processor", call.content,
       ProcessorOutcomes(Running(call.content, Calls), call.post_processor,
                         "post_processor"),
       "return")

\* core.py 180
Return ==
  /\ pc = "return"
  /\ results' = <<call.content>>
  /\ pc' = "done"
  /\ UNCHANGED <<cache, disk, disk0, world, call, gen, tasks, raised, warnings, stdin, stdout>>

NextBytes == PreProcess \/ Sort \/ Format \/ PostProcess \/ Return

SpecBytes == InitBytes /\ [][NextBytes]_vars

(* -------------------------- ufmt_file, twice --------------------------- *)

\* Worlds whose sorter and formatter leave their own output alone: each
\* returns what it is given or the one formatted content of the world, which
\* it returns unchanged when given it.  A processor may do the same, or
\* append to what it is given.
TwiceWorlds ==
  {[configs |-> {c \in ConfigOutcomes :
                   c.config = [sorter |-> "usort", formatter |-> "black"]},
    rewrites |-> {r}, appends |-> Appends, skips |-> {<<>>}, discovery |-> {"ok"},
   excludes |-> NoExcludes]
     : r \in {<<"a", "LF">>, <<"CR", "LF">>}}

TwiceFlags == {f \in Flags : ~f.diff /\ ~f.return_content}

\* ufmt_file(path, ...) is about to be called, and will be called again with
\* the same arguments on what the first call leaves
InitTwice ==
  /\ world \in TwiceWorlds
  /\ \E f \in Files, c \in Contents \cup {Missing} :
       /\ disk = [g \in Files |-> IF g = f THEN c ELSE Missing]
       /\ \E flags \in TwiceFlags : call = WithPaths(flags, <<f>>)
  /\ disk0 = disk
  /\ pc = "first run"
  /\ gen = NoGen
  /\ tasks = <<>>
  /\ results = <<>>
  /\ raised = None
  /\ warnings = 0
  /\ stdin = <<>>
  /\ stdout = <<>>
  /\ cache = NoCache

\* one ufmt_file call on the file as it is now
Run(at, then) ==
  /\ pc = at
  /\ LET path == call.paths[1]
     IN  \E o \in ufmt_file(path, disk[path], call, world.configs) :
           /\ tasks' = Append(tasks, Task(path, "returned", o))
           /\ disk' = [disk EXCEPT ![path] = o.file]
           /\ results' = IF o.raised = None THEN Append(results, o.result)
                         ELSE results
           /\ raised' = o.raised
           /\ pc' = IF o.raised = None THEN then ELSE "done"
  /\ UNCHANGED <<cache, disk0, world, call, gen, warnings, stdin, stdout>>

FirstRun == Run("first run", "second run")

SecondRun == Run("second run", "done")

NextTwice == FirstRun \/ SecondRun

SpecTwice == InitTwice /\ [][NextTwice]_vars

(* ------------------------------- claims -------------------------------- *)

\* the ufmt_file calls that have ended
Ended == {i \in DOMAIN tasks : tasks[i].state # "submitted"}

\* ufmt_file got as far as write_file, and write_file raised
WriteRaised(o) == o.fail.at \in {"open", "write"}

\* ufmt_bytes ended with SkipFormatting raised by the pre-processor: no
\* post-processor call was made
PreSkipped(o) ==
  /\ o.pipe.kind = "skip"
  /\ \A k \in DOMAIN o.pipe.calls : o.pipe.calls[k] # "post_processor"

\* ufmt_bytes ended with SkipFormatting raised by the post-processor
PostSkipped(o) ==
  /\ o.pipe.kind = "skip"
  /\ \E k \in DOMAIN o.pipe.calls : o.pipe.calls[k] = "post_processor"

\* C1: when write_file fails while ufmt_file writes a changed file, the file
\* still holds its complete original bytes.
C1_FailedWriteKeepsOriginal ==
  \A i \in Ended :
    WriteRaised(tasks[i].out) => disk[tasks[i].path] = tasks[i].out.old

\* C2: ufmt_file never raises to its caller; every error is in Result.error.
C2_UfmtFileNeverRaises ==
  \A i \in Ended : tasks[i].out.raised = None

\* C4: when the pre-processor raises SkipFormatting, no backend and no
\* post-processor is invoked, nothing is written, skipped is the reason (True
\* when the exception carries no message), and changed, written and error
\* keep their defaults.
C4_PreSkip ==
  \A i \in Ended :
    LET o == tasks[i].out
    IN  PreSkipped(o) =>
          /\ o.pipe.calls = <<"pre_processor">>
          /\ o.fail = NotWritten
          /\ disk[tasks[i].path] = o.old
          /\ o.raised = None
          /\ o.result.skipped = (IF PyStr(o.pipe.args) = "" THEN PyTrue
                                 ELSE o.pipe.args[1])
          /\ ~o.result.changed
          /\ ~o.result.written
          /\ o.result.error = None

C4_Witness ==
  \E i \in Ended :
    /\ PreSkipped(tasks[i].out)
    /\ tasks[i].out.result.skipped = "because I said so"
    /\ ~call.dry_run

\* C5: when the post-processor raises SkipFormatting, the Result has skipped
\* set and the file holds the bytes it held before the call: the bytes the
\* sorter and the formatter produced are never written.
C5_PostSkip ==
  \A i \in Ended :
    LET o == tasks[i].out
    IN  PostSkipped(o) =>
          /\ o.raised = None
          /\ o.result.skipped # PyFalse
          /\ o.fail = NotWritten
          /\ disk[tasks[i].path] = o.old

C5_Witness ==
  \E i \in Ended :
    /\ PostSkipped(tasks[i].out)
    /\ \E k \in DOMAIN tasks[i].out.pipe.calls : tasks[i].out.pipe.calls[k] = "black"
    /\ ~call.dry_run
    /\ disk[tasks[i].path] = <<"CR", "LF">>

\* C6: with dry_run=True ufmt_file never writes the file and never sets
\* written, however the call ends; changed still says whether the transformed
\* content differs from the content read.
C6_DryRun ==
  call.dry_run =>
    \A i \in Ended :
      LET o == tasks[i].out
      IN  /\ o.fail = NotWritten
          /\ disk[tasks[i].path] = o.old
          /\ ~o.result.written
          /\ (o.raised = None /\ o.pipe.kind = "ok") =>
               (o.result.changed <=> o.pipe.content # o.src)
          /\ (o.raised = None /\ o.pipe.kind # "ok") => ~o.result.changed

C6_Witness ==
  /\ call.dry_run
  /\ \E i \in Ended :
       /\ tasks[i].out.result.changed
       /\ tasks[i].out.pipe.content # tasks[i].out.src
       /\ disk[tasks[i].path] = tasks[i].out.old

\* C7: when the transformed bytes equal the bytes read, ufmt_file returns
\* changed=false and written=false and does not call write_file: the file
\* keeps its bytes, CRLF line endings included.
C7_Unchanged ==
  \A i \in Ended :
    LET o == tasks[i].out
    IN  (o.raised = None /\ o.pipe.kind = "ok" /\ o.pipe.content = o.src) =>
          /\ ~o.result.changed
          /\ ~o.result.written
          /\ o.result.error = None
          /\ o.fail = NotWritten
          /\ disk[tasks[i].path] = o.old

C7_Witness ==
  \E i \in Ended :
    LET o == tasks[i].out
    IN  /\ o.pipe.kind = "ok"
        /\ o.pipe.content = o.src
        /\ o.pipe.calls # <<>>
        /\ o.old = <<"CR", "LF">>
        /\ o.newline = CRLF
        /\ ~call.dry_run
        /\ disk[tasks[i].path] = <<"CR", "LF">>

\* C9 as stated: every Result with error set has changed=false and
\* written=false.
C9_ErrorMeansUnchanged ==
  \A i \in Ended :
    LET o == tasks[i].out
    IN  (o.raised = None /\ o.result.error # None) =>
          (~o.result.changed /\ ~o.result.written)

\* C9 amended: every Result with error set has written=false; it has
\* changed=true exactly when the error is write_file's, and changed=false
\* otherwise.
C9_ErrorMeansUnwritten ==
  \A i \in Ended :
    LET o == tasks[i].out
    IN  (o.raised = None /\ o.result.error # None) =>
          /\ ~o.result.written
          /\ o.result.changed <=> WriteRaised(o)

C9_Witness ==
  /\ \E i \in Ended :
       /\ tasks[i].out.result.error = "write_file error"
       /\ tasks[i].out.result.changed
  /\ \E f \in Files : disk[f] # Missing

\* C10: when the content changed, dry_run is false and write_file fails, the
\* Result has the write failure as error, changed=true and written=false;
\* when write_file succeeds the Result has written=true and no error.
C10_WriteOutcome ==
  \A i \in Ended :
    LET o == tasks[i].out
    IN  /\ (o.raised = None /\ o.pipe.kind = "ok" /\ o.pipe.content # o.src
              /\ ~call.dry_run) => o.fail # NotWritten
        /\ WriteRaised(o) =>
             /\ o.raised = None
             /\ o.result.error = "write_file error"
             /\ o.result.changed
             /\ ~o.result.written
        /\ o.fail.at = "none" =>
             /\ o.raised = None
             /\ o.result.written
             /\ o.result.changed
             /\ o.result.error = None
             /\ disk[tasks[i].path] = normalize_result(o.pipe.content, o.newline)

C10_Witness ==
  \E i \in Ended :
    /\ tasks[i].out.fail.at = "write"
    /\ tasks[i].out.fail.k = 1
    /\ tasks[i].out.result.error = "write_file error"

(* ------------------------- claims on ufmt_paths ------------------------- *)

\* what generate_paths yields on the file system the call was made on
RECURSIVE Discovered(_)
Discovered(paths) ==
  IF paths = <<>> THEN <<>>
  ELSE (IF Head(paths) = STDIN \/ disk0[Head(paths)] = Missing THEN <<>>
        ELSE <<Head(paths)>>) \o Discovered(Tail(paths))

NoDuplicates(q) == \A i, j \in DOMAIN q : q[i] = q[j] => i = j

\* ufmt_bytes raised an exception other than SkipFormatting in this call
TransformFailed(o) == o.pipe.kind = "error"

\* the call met no failure at all
Unfailing(o) == o.raised = None /\ o.result.error = None

\* a finished run over files each discovered once, in which the transform of
\* exactly one file failed and nothing else did
OneTransformFailure ==
  /\ pc = "done"
  /\ call.paths # <<>>
  /\ call.paths[1] # STDIN
  /\ raised # DiscoveryError
  /\ NoDuplicates(Discovered(call.paths))
  /\ \E i \in Ended :
       /\ TransformFailed(tasks[i].out)
       /\ \A j \in Ended \ {i} : Unfailing(tasks[j].out)

\* C3: in a ufmt_paths run over N discovered files of which exactly one fails
\* to transform, N Results are yielded, exactly one of them has error set,
\* and every other file has the Result and the bytes that ufmt_file alone
\* gives it.
C3_ErrorIsolation ==
  OneTransformFailure =>
    /\ raised = None
    /\ Len(tasks) = Len(Discovered(call.paths))
    /\ Len(results) = Len(Discovered(call.paths))
    /\ \A i \in DOMAIN tasks : tasks[i].state = "returned"
    /\ Cardinality({k \in DOMAIN results : results[k].error # None}) = 1
    /\ \A i \in DOMAIN tasks :
         LET o == tasks[i].out
             f == tasks[i].path
         IN  /\ Cardinality({k \in DOMAIN results : results[k].path = f}) = 1
             /\ \E k \in DOMAIN results : results[k] = o.result
             /\ o.old = disk0[f]
             /\ disk[f] = o.file
             /\ o \in ufmt_file(f, disk0[f], call, world.configs)
             /\ TransformFailed(o) => (o.result.error # None /\ disk[f] = disk0[f])
    /\ \A f \in Files :
         (\A i \in DOMAIN tasks : tasks[i].path # f) => disk[f] = disk0[f]

C3_Witness ==
  /\ OneTransformFailure
  /\ Len(results) = 2
  /\ \E i, j \in DOMAIN tasks :
       /\ TransformFailed(tasks[i].out)
       /\ tasks[j].out.result.written
       /\ disk[tasks[j].path] # disk0[tasks[j].path]
       /\ results[1] = tasks[i].out.result

\* C8: every Result ufmt_file, ufmt_stdin or ufmt_paths returns has
\* written => changed.
C8_WrittenImpliesChanged ==
  /\ \A k \in DOMAIN results : results[k].written => results[k].changed
  /\ \A i \in Ended : tasks[i].out.result.written => tasks[i].out.result.changed

C8_Witness ==
  /\ Len(results) = 2
  /\ results[1].written
  /\ results[1].changed
  /\ ~results[2].written

(* ----------------------- claims on the Result ------------------------- *)

\* C11: a returned Result never has both error and skipped set, and a skipped
\* Result has changed=false, written=false and no diff, whatever stages ran
\* before the skip.
C11_OneOutcome ==
  \A i \in Ended :
    LET o == tasks[i].out
    IN  o.raised = None =>
          /\ ~(o.result.error # None /\ o.result.skipped # PyFalse)
          /\ o.result.skipped # PyFalse =>
               /\ ~o.result.changed
               /\ ~o.result.written
               /\ o.result.diff = <<>>
               /\ o.fail = NotWritten

C11_Witness ==
  \E i \in Ended :
    LET o == tasks[i].out
    IN  /\ o.raised = None
        /\ o.result.skipped # PyFalse
        /\ o.pipe.calls = <<"usort", "black", "post_processor">>
        /\ call.diff
        /\ ~call.dry_run

(* ------------------- claims on read_file, write_file ------------------- *)

\* read_file then write_file have both returned
RoundTripDone == pc = "done" /\ raised = None /\ call.paths # <<>>

\* an LF that is not the second byte of a CR LF pair
BareLF(c) == \E i \in 1..Len(c) : c[i] = "LF" /\ (i = 1 \/ c[i - 1] # "CR")

\* the first line ends with CR LF and a later line with LF alone
MixedAfterCRLF(c) == EndsWith(FirstLine(c), CRLF) /\ BareLF(c)

\* C12 as stated: for every content c, mixed line endings included,
\* write_file(path, read_file(path).content, read_file(path).newline) leaves
\* the file byte-identical to c.
C12_RoundTripAlways ==
  RoundTripDone => disk = disk0

\* C12 amended: the round trip leaves the file byte-identical to c unless the
\* first line of c ends with CR LF and c has an LF not preceded by CR; then
\* the file comes back different, with no LF left that is not preceded by CR.
C12_RoundTrip ==
  RoundTripDone =>
    LET f == call.paths[1]
    IN  IF MixedAfterCRLF(disk0[f])
          THEN disk[f] # disk0[f] /\ ~BareLF(disk[f])
          ELSE disk[f] = disk0[f]

C12_Witness ==
  /\ RoundTripDone
  /\ call.newline = CRLF
  /\ disk0[call.paths[1]] = <<"a", "CR", "LF", "LF">>
  /\ disk[call.paths[1]] # disk0[call.paths[1]]

(* ----------------------- claims on written bytes ----------------------- *)

\* c with every LF byte replaced by the bytes of newline
RECURSIVE Expand(_, _)
Expand(c, newline) ==
  IF c = <<>> THEN <<>>
  ELSE (IF Head(c) = "LF" THEN newline ELSE <<Head(c)>>) \o Expand(Tail(c), newline)

\* C13: after ufmt_file wrote a changed file, the file holds the transformed
\* content with every LF expanded to the newline detected at read time, so a
\* file detected as CRLF has no bare LF; with return_content=True, after is
\* exactly the bytes written and before is the content read, expanded the
\* same way.
C13_WrittenBytes ==
  \A i \in Ended :
    LET o == tasks[i].out
        f == tasks[i].path
    IN  o.fail.at = "none" =>
          /\ o.pipe.content # o.src
          /\ disk[f] = Expand(o.pipe.content, o.newline)
          /\ o.newline = CRLF => ~BareLF(disk[f])
          /\ call.return_content =>
               /\ o.result.after = disk[f]
               /\ o.result.before = Expand(o.src, o.newline)

C13_Witness ==
  \E i \in Ended :
    LET o == tasks[i].out
    IN  /\ o.fail.at = "none"
        /\ o.newline = CRLF
        /\ o.pipe.content = <<"LF", "LF">>
        /\ call.return_content
        /\ o.result.after = <<"CR", "LF", "CR", "LF">>
        /\ o.result.before = <<"CR", "LF">>
        /\ disk[tasks[i].path] = <<"CR", "LF", "CR", "LF">>

(* ------------------------ claims on a second run ----------------------- *)

\* the first run wrote the file and the second run has returned
WroteThenRan ==
  /\ pc = "done"
  /\ Len(tasks) = 2
  /\ tasks[1].out.fail.at = "none"
  /\ tasks[2].out.raised = None

\* the second run read back the content the first run produced
ReadBack == tasks[2].out.src = tasks[1].out.pipe.content

Rank(stage) ==
  IF stage = "pre_processor" THEN 1
  ELSE IF stage \in {"usort", "ruff_api.isort_string"} THEN 2
  ELSE IF stage \in {"black", "ruff_api.format_string"} THEN 3
  ELSE 4

\* ufmt_bytes has returned
Returned == pc = "done" /\ raised = None /\ results # <<>>

\* C15: ufmt_bytes calls its stages in the order pre-processor, sorter,
\* formatter, post-processor, each at most once; the first stage called is
\* given the caller's content and each later one what the stage before it
\* returned; the bytes returned are what the last stage returned, which is
\* the post-processor when one is given and the formatter otherwise.
C15_StageOrder ==
  /\ \A i, j \in DOMAIN tasks : i < j => Rank(tasks[i].stage) < Rank(tasks[j].stage)
  /\ \A k \in DOMAIN tasks :
       tasks[k].given = (IF k = 1 THEN call.src ELSE tasks[k - 1].returned)
  /\ Returned =>
       /\ results = <<tasks[Len(tasks)].returned>>
       /\ Rank(tasks[Len(tasks)].stage) = (IF call.post_processor = None THEN 3 ELSE 4)
       /\ call.pre_processor # None => tasks[1].stage = "pre_processor"
       /\ {Rank(tasks[k].stage) : k \in DOMAIN tasks} =
            {3} \cup (IF call.pre_processor = None THEN {} ELSE {1})
                \cup (IF call.ufmt_config.sorter = "skip" THEN {} ELSE {2})
                \cup (IF call.post_processor = None THEN {} ELSE {4})

C15_Witness ==
  /\ Returned
  /\ Calls = <<"pre_processor", "usort", "black", "post_processor">>
  /\ call.src = <<>>
  /\ tasks[1].returned = <<"a">>
  /\ tasks[2].given = <<"a">>
  /\ tasks[2].returned = <<"a", "LF">>
  /\ tasks[3].returned = <<"LF", "LF">>
  /\ results = <<(<<"LF", "LF", "a">>)>>

\* every stage called so far returned
AllReturned == \A k \in DOMAIN tasks : tasks[k].kind = "ok"

\* C16: with a sorter outside the Sorter enumeration ufmt_bytes calls no
\* sorter and no formatter backend and, once the pre-processor (if any) has
\* returned, raises an error naming the value; with a formatter outside the
\* Formatter enumeration it calls no formatter backend and, once a supported
\* sorter and the pre-processor have returned and the content decoded, raises
\* an error naming the value.
C16_UnsupportedValues ==
  /\ call.ufmt_config.sorter \notin Sorters =>
       /\ \A k \in DOMAIN tasks : Rank(tasks[k].stage) \notin {2, 3}
       /\ pc \notin {"pre_processor", "sorter"} =>
            /\ pc = "done"
            /\ results = <<>>
            /\ raised # None
            /\ AllReturned =>
                 raised = "ValueError: 'unsupported' is not a supported sorter"
  /\ call.ufmt_config.formatter \notin Formatters =>
       /\ \A k \in DOMAIN tasks : Rank(tasks[k].stage) # 3
       /\ pc \notin {"pre_processor", "sorter", "formatter"} =>
            /\ pc = "done"
            /\ results = <<>>
            /\ raised # None
            /\ (/\ call.ufmt_config.sorter \in Sorters
                /\ AllReturned
                /\ raised # "UnicodeDecodeError") =>
                 raised = "ValueError: 'unsupported' is not a supported formatter"

C16_Witness ==
  /\ pc = "done"
  /\ call.ufmt_config.formatter = Unsupported
  /\ Calls = <<"pre_processor", "ruff_api.isort_string">>
  /\ AllReturned
  /\ raised = "ValueError: 'unsupported' is not a supported formatter"

(* ------------------------- claims on stdin mode ------------------------ *)

\* ufmt_paths was called with the stdin sentinel as its first path
StdinMode == call.paths # <<>> /\ call.paths[1] = STDIN

\* C17: with the stdin sentinel first, the display name is "stdin" when no
\* path follows and the following path when exactly one does; with two or
\* more following paths ufmt_paths raises "too many stdin paths", leaves
\* standard input unread and formats nothing.
C17_StdinPaths ==
  StdinMode =>
    /\ Len(call.paths) = 1 =>
         /\ \A k \in DOMAIN results : results[k].path = "stdin"
         /\ \A i \in DOMAIN tasks : tasks[i].path = "tmp/stdin"
    /\ Len(call.paths) = 2 =>
         /\ \A k \in DOMAIN results : results[k].path = call.paths[2]
         /\ \A i \in DOMAIN tasks : tasks[i].path = "tmp/" \o call.paths[2]
    /\ Len(call.paths) > 2 =>
         /\ stdin \in PathsContents
         /\ tasks = <<>>
         /\ results = <<>>
         /\ stdout = <<>>
         /\ disk = disk0
         /\ pc = "done" => raised = "ValueError: too many stdin paths"

C17_Witness ==
  /\ StdinMode
  /\ pc = "done"
  /\ call.paths = <<STDIN, "f2">>
  /\ Len(results) = 1
  /\ results[1].path = "f2"
  /\ results[1].written

(* ----------------- claims on the sentinel among the paths -------------- *)

IsPath(x) == x # STDIN

\* the path list without its sentinels
Plain(paths) == SelectSeq(paths, IsPath)

SentinelsIn(paths) == Cardinality({k \in DOMAIN paths : paths[k] = STDIN})

\* the sentinel is in the list, and not in front
SentinelLater ==
  /\ call.paths # <<>>
  /\ call.paths[1] # STDIN
  /\ SentinelsIn(call.paths) > 0

\* C18: with the stdin sentinel in the list but not in front, ufmt_paths logs
\* a warning for each sentinel generate_paths comes to, makes no ufmt_file
\* call and yields no Result for it, leaves standard input unread and
\* standard output alone, and a run that ends without raising has discovered
\* and formatted the files of the list without its sentinels, each as
\* ufmt_file formats it.
C18_SentinelIgnored ==
  SentinelLater =>
    /\ stdin # <<>>
    /\ stdout = <<>>
    /\ \A i \in DOMAIN tasks : tasks[i].path \in Files
    /\ \A k \in DOMAIN results : results[k].path \in Files
    /\ raised # DiscoveryError =>
         warnings = SentinelsIn(call.paths) - SentinelsIn(gen.rest)
    /\ (pc = "done" /\ raised = None) =>
         /\ warnings = SentinelsIn(call.paths)
         /\ [i \in DOMAIN tasks |-> tasks[i].path] = Discovered(Plain(call.paths))
         /\ Len(results) = Len(tasks)
         /\ \A i \in DOMAIN tasks :
              LET o == tasks[i].out
              IN  /\ tasks[i].state = "returned"
                  /\ o \in ufmt_file(tasks[i].path, o.old, call, world.configs)
                  /\ \E k \in DOMAIN results : results[k] = o.result

C18_Witness ==
  /\ SentinelLater
  /\ pc = "done"
  /\ raised = None
  /\ call.paths = <<"f1", STDIN, "f2">>
  /\ warnings = 1
  /\ Len(results) = 2
  /\ results[1].path = "f2"
  /\ results[1].written
  /\ stdin = <<"a", "LF">>

(* --------------------------- claims on ufmt_stdin ---------------------- *)

\* ufmt_paths has ended a call that went to ufmt_stdin
StdinDone == StdinMode /\ Len(call.paths) <= 2 /\ pc = "done"

\* the bytes that were waiting on standard input, and what the pipeline made
\* of them
StdinInput == tasks[1].out.old
StdinFormatted == Expand(tasks[1].out.pipe.content, tasks[1].out.newline)

\* formatting returned bytes other than the ones read
StdinChanged ==
  /\ tasks[1].out.pipe.kind = "ok"
  /\ tasks[1].out.pipe.content # tasks[1].out.src

\* C19: in stdin mode the worker pool is not used and exactly one Result is
\* produced, with the display name as its path; with dry_run=false standard
\* output is written once, with the formatted bytes (and changed=true,
\* written=true) when formatting changed the input and with the input bytes
\* otherwise; with dry_run=true standard output is not written.
C19_StdinResult ==
  /\ (StdinMode /\ Len(call.paths) <= 2) =>
       /\ pc \in {"ufmt_paths", "done"}
       /\ gen.rest = call.paths
       /\ \A i \in DOMAIN tasks : tasks[i].state = "returned"
  /\ StdinDone =>
       /\ Len(results) = 1
       /\ Len(tasks) = 1
       /\ results[1].path = (IF Len(call.paths) = 2 THEN call.paths[2] ELSE "stdin")
       /\ call.dry_run => stdout = <<>>
       /\ ~call.dry_run =>
            /\ Len(stdout) = 1
            /\ IF StdinChanged
                 THEN /\ stdout[1] = StdinFormatted
                      /\ results[1].changed
                      /\ results[1].written
                 ELSE stdout[1] = StdinInput

\* C20 as stated: whenever a stdin-mode Result carries a diff, both header
\* lines name the display name, never the staging path.
C20_DiffNamesDisplayPath ==
  StdinDone =>
    \A k \in DOMAIN results :
      results[k].diff # <<>> =>
        /\ results[k].diff[3] = results[k].path
        /\ results[k].diff[4] = results[k].path

\* C20 amended: whenever a stdin-mode Result carries a diff and the display
\* name is not the stdin sentinel itself, both header lines name the display
\* name and not the staging path; when the display name is the sentinel, the
\* header lines keep the staging path.
C20_DiffHeaders ==
  StdinDone =>
    \A k \in DOMAIN results :
      results[k].diff # <<>> =>
        IF results[k].path # STDIN
          THEN /\ results[k].diff[3] = results[k].path
               /\ results[k].diff[4] = results[k].path
          ELSE /\ results[k].diff[3] = "a/tmp/-"
               /\ results[k].diff[4] = "b/tmp/-"

C20_Witness ==
  /\ StdinDone
  /\ call.paths = <<STDIN, "f1">>
  /\ Len(results) = 1
  /\ results[1].changed
  /\ results[1].diff # <<>>
  /\ results[1].diff[3] = "f1"
  /\ results[1].diff[4] = "f1"
  /\ tasks[1].path = "tmp/f1"

(* ---------------------- claims on the two pumps ------------------------ *)

\* ufmt_paths was called with paths and no sentinel in front
PathsMode == call.paths # <<>> /\ call.paths[1] # STDIN

\* the paths of the ufmt_file calls made or submitted, in order
TaskPaths == [i \in DOMAIN tasks |-> tasks[i].path]

IsPrefix(p, q) == Len(p) <= Len(q) /\ SubSeq(q, 1, Len(p)) = p

ResultsOf(f) == {k \in DOMAIN results : results[k].path = f}

\* generate_paths yields f on the file system the call was made on
IsDiscovered(f) == \E i \in DOMAIN Discovered(call.paths) : Discovered(call.paths)[i] = f

\* ufmt_paths ran over paths, its generator was exhausted and nothing raised
Completed == PathsMode /\ pc = "done" /\ raised = None

\* C22: a completed ufmt_paths run yields exactly one Result for each
\* discovered file, the first two pumped ones included, and none for any
\* other file, in whatever order the tasks complete.
C22_OneResultPerFile ==
  Completed =>
    \A f \in Files : Cardinality(ResultsOf(f)) = (IF IsDiscovered(f) THEN 1 ELSE 0)

\* C23: the files path discovery hands to the orchestrator are deduplicated:
\* each file is dispatched to ufmt_file at most once per ufmt_paths run, also
\* when the input paths overlap.
C23_DispatchedOnce ==
  PathsMode => NoDuplicates(TaskPaths)

(* ------------------- claims on the workers of the pool ------------------ *)

\* worker i of the pool called write_file
Wrote(i) == tasks[i].state \in {"finished", "returned"} /\ tasks[i].out.fail # NotWritten

\* C24: within one ufmt_paths run there is at most one writer per file: no two
\* worker tasks read, transform and write the same path.
C24_OneWriterPerFile ==
  \A i, j \in DOMAIN tasks :
    (tasks[i].path = tasks[j].path /\ Wrote(i) /\ Wrote(j)) => i = j

(* ------------------------- claims on the excludes ----------------------- *)

\* the files of the tree that lie under directory d
Under(d) ==
  {f \in TreeFiles :
     /\ ProjectOf(f) = ProjectOf(d)
     /\ d = "proj/foo/frob" => f = "proj/foo/frob/main.py"}

Dispatched(f) == \E i \in DOMAIN tasks : tasks[i].path = f

\* C25: a file under a walked directory that matches an exclude pattern of the
\* configuration resolved for that input path is never dispatched to
\* ufmt_file and never modified, and its siblings that match no exclude
\* pattern are dispatched.
C25_Excludes ==
  \A k \in DOMAIN call.paths :
    LET excludes == world.excludes[ProjectOf(call.paths[k])]
    IN  \A f \in Under(call.paths[k]) :
          /\ Excluded(f, excludes) => (~Dispatched(f) /\ disk[f] = disk0[f])
          /\ (~Excluded(f, excludes) /\ Completed) => Dispatched(f)

C25_Witness ==
  /\ Completed
  /\ call.paths = <<"proj">>
  /\ world.excludes["proj"] = <<"foo/frob/", "__init__.py">>
  /\ TaskPaths = <<"proj/foo/foo.py">>
  /\ results[1].written
  /\ disk["proj/foo/foo.py"] # disk0["proj/foo/foo.py"]
  /\ disk["proj/foo/__init__.py"] = <<"CR", "LF">>
  /\ disk["proj/foo/frob/main.py"] = <<"CR", "LF">>

(* ------------------------- claims on load_config ------------------------ *)

\* the calls of load_config in the log
Loads == {i \in DOMAIN tasks : tasks[i].call = "load_config"}

\* call i is the first with its key
FirstUse(i) == \A j \in Loads : j < i => tasks[j].key # tasks[i].key

ValidSelector(v, members) == v.type = "absent" \/ (v.type = "str" /\ v.value[1] \in members)

\* C27: resolving fails with "excludes must be a list of strings" when the
\* excludes of tool.ufmt is a bare string, and succeeds with the listed
\* patterns, in order, when it is a list (none when it is absent or empty).
C27_Excludes ==
  \A i \in Loads :
    LET doc == tasks[i].doc
    IN  doc.kind = "table" =>
          /\ doc.excludes.type = "str" =>
               tasks[i].raised =
                 "ValueError: proj/pyproject.toml: excludes must be a list of strings"
          /\ (/\ doc.excludes.type \in {"list", "absent"}
              /\ ValidSelector(doc.formatter, Formatters)
              /\ ValidSelector(doc.sorter, Sorters)) =>
               /\ tasks[i].raised = None
               /\ tasks[i].config.excludes = doc.excludes.value

C27_Witness ==
  /\ Len(tasks) = 2
  /\ disk["proj/pyproject.toml"].kind = "table"
  /\ tasks[1].key = <<"proj/foo/foo.py", None>>
  /\ tasks[1].doc.excludes = Str("fixtures/")
  /\ tasks[1].raised # None
  /\ tasks[2].key = tasks[1].key
  /\ tasks[2].doc.excludes = Str("fixtures/")
  /\ tasks[2].raised = tasks[1].raised

C29_NeverFatal ==
  \A i \in Loads :
    LET doc == tasks[i].doc
    IN  /\ doc.kind \in {"tool.ufmt is a string", "tool.ufmt is an array"} =>
             /\ tasks[i].raised = None
             /\ tasks[i].config = [project_root |-> "proj",
                                   pyproject_path |-> "proj/pyproject.toml",
                                   excludes |-> <<>>, formatter |-> "black",
                                   sorter |-> "usort"]
             /\ FirstUse(i) => tasks[i].warned = 1
        /\ (/\ doc.kind = "table"
            /\ doc.unknown # {}
            /\ doc.excludes.type # "str"
            /\ ValidSelector(doc.formatter, Formatters)
            /\ ValidSelector(doc.sorter, Sorters)) =>
             /\ tasks[i].raised = None
             /\ tasks[i].config.project_root = "proj"
             /\ tasks[i].config.pyproject_path = "proj/pyproject.toml"
             /\ tasks[i].config.excludes = doc.excludes.value
             /\ tasks[i].config.formatter =
                  (IF doc.formatter.type = "str" THEN doc.formatter.value[1] ELSE "black")
             /\ tasks[i].config.sorter =
                  (IF doc.sorter.type = "str" THEN doc.sorter.value[1] ELSE "usort")
             /\ FirstUse(i) => tasks[i].warned = 1

C29_Witness ==
  /\ Len(tasks) = 1
  /\ tasks[1].doc.kind = "tool.ufmt is a string"
  /\ tasks[1].raised = None
  /\ tasks[1].config.project_root = "proj"
  /\ warnings = 1

\* cache_clear was called between calls i and j
ClearedBetween(i, j) ==
  \E m \in DOMAIN tasks : i < m /\ m < j /\ tasks[m].call = "cache_clear"

\* the other keys resolved between calls i and j
OthersBetween(i, j) ==
  {tasks[m].key : m \in {n \in Loads : /\ i < n
                                       /\ n < j
                                       /\ tasks[n].raised = None
                                       /\ tasks[n].key # tasks[i].key}}

\* C30: once the configuration has been resolved for a (path, root) key, every
\* later resolution of the same key returns that same Configuration, whatever
\* happens to the file and however many other keys are resolved in between,
\* until the cache is cleared.
C30_CachedUntilCleared ==
  \A i, j \in Loads :
    (/\ i < j
     /\ tasks[i].key = tasks[j].key
     /\ tasks[i].raised = None
     /\ ~ClearedBetween(i, j)) =>
      /\ tasks[j].raised = None
      /\ tasks[j].config = tasks[i].config

\* C30, amended: the same holds as long as fewer other keys than the cache
\* keeps entries are resolved in between; and after a clear the file is read
\* again.
C30_CachedUntilEvicted ==
  \A i, j \in Loads :
    (i < j /\ tasks[i].key = tasks[j].key) =>
      /\ (/\ tasks[i].raised = None
          /\ ~ClearedBetween(i, j)
          /\ Cardinality(OthersBetween(i, j)) < MaxCached) =>
           /\ tasks[j].raised = None
           /\ tasks[j].config = tasks[i].config
      /\ (/\ ClearedBetween(i, j)
          /\ \A m \in Loads : (i < m /\ m < j) => tasks[m].key # tasks[i].key) =>
           LET fresh == Resolve(RootOf(tasks[j].key), PyprojectOf(tasks[j].key), tasks[j].doc)
           IN  tasks[j].raised = fresh.raised /\ tasks[j].config = fresh.config

C30_Witness ==
  /\ Len(tasks) = 3
  /\ tasks[1].key = <<"proj/foo/foo.py", None>>
  /\ tasks[2].key = <<"lib/__init__.py", None>>
  /\ tasks[3].key = <<"proj/foo/foo.py", None>>
  /\ \A m \in 1..3 : tasks[m].call = "load_config"
  /\ tasks[1].doc # tasks[3].doc
  /\ tasks[3].config = tasks[1].config
  /\ tasks[3].raised = None


(* ------------------- claims on errors during discovery ------------------ *)

\* C32: an error raised while resolving the configuration of an input path
\* during discovery is not converted into a Result; it propagates out of
\* ufmt_paths and ends the run, from either pump and from the pool: a run
\* ends without an exception only when every discovered file was dispatched,
\* and once the error has propagated the run is over and no Result carries
\* it.
C32_DiscoveryErrorPropagates ==
  PathsMode =>
    /\ (pc = "done" /\ raised = None) =>
         \A f \in Files : IsDiscovered(f) => Dispatched(f)
    /\ raised = "config factory error in generate_paths" =>
         /\ pc = "done"
         /\ \A k \in DOMAIN results :
              results[k].error # "config factory error in generate_paths"

\* the pool had handed back the first Result when resolving the configuration
\* of the third path raised
C32_Witness ==
  /\ raised = "config factory error in generate_paths"
  /\ pc = "done"
  /\ Len(call.paths) = 3
  /\ Len(tasks) = 2
  /\ Len(results) = 1
  /\ disk0[call.paths[3]] # Missing

(* --------------------------- claims on read_file ------------------------ *)

\* the first line of raw, up to its first LF, ends with CR LF
FirstLineEndsCRLF(raw) ==
  \E i \in 1..(Len(raw) - 1) :
    /\ raw[i] = "CR"
    /\ raw[i + 1] = "LF"
    /\ \A j \in 1..i : raw[j] # "LF"

\* C33: read_file returns the newline CRLF exactly when the first line of the
\* file ends with CRLF and LF otherwise (an empty file and a file with no
\* line terminator included), and the content with every occurrence of that
\* newline replaced by LF; when the file cannot be opened it raises and
\* returns nothing.
C33_ReadFile ==
  pc \in {"write_file", "done"} =>
    LET raw == disk0[call.paths[1]]
    IN  IF raw = Missing
          THEN raised = "FileNotFoundError" /\ pc = "done" /\ call.content = <<>>
          ELSE /\ call.newline = (IF FirstLineEndsCRLF(raw) THEN CRLF ELSE LF)
               /\ call.content = Replace(raw, call.newline, LF)
               /\ (raw = <<>> \/ \A i \in DOMAIN raw : raw[i] # "LF") =>
                    (call.newline = LF /\ call.content = raw)

\* a file whose first line ends with CRLF and whose second ends with LF
C33_Witness ==
  /\ pc = "write_file"
  /\ disk0[call.paths[1]] = <<"CR", "LF", "a", "LF">>
  /\ call.newline = CRLF
  /\ call.content = <<"LF", "a", "LF">>

(* ------------------------ claims on a failing sorter -------------------- *)

\* the errors a sorter backend reports
SorterErrors == {"usort result.error", "ruff_api.isort_string error"}

\* C34: when the sorter backend reports an error the pipeline stops there:
\* neither the formatter backend nor the post-processor is invoked, ufmt_file
\* returns a Result with that error set and skipped unset, and the file is
\* not written.
C34_SorterErrorStops ==
  \A i \in DOMAIN tasks :
    LET o == tasks[i].out
    IN  o.pipe.info \in SorterErrors =>
          /\ \A k \in DOMAIN o.pipe.calls :
               o.pipe.calls[k] \in {"pre_processor", "usort", "ruff_api.isort_string"}
          /\ o.raised = None
          /\ o.result.error = o.pipe.info
          /\ o.result.skipped = PyFalse
          /\ ~o.result.written
          /\ o.fail = NotWritten
          /\ disk[tasks[i].path] = disk0[tasks[i].path]

\* usort reported an error in a run that had a post-processor and was to
\* write the file
C34_Witness ==
  /\ pc = "done"
  /\ call.post_processor = "processor"
  /\ ~call.dry_run
  /\ tasks[1].out.pipe.calls = <<"usort">>
  /\ tasks[1].out.result.error = "usort result.error"
  /\ disk[call.paths[1]] = <<"a", "LF">>

(* -------------------------- claims on Result.diff ----------------------- *)

\* the diff of what read_file returned and what ufmt_bytes returned, both in
\* the file's newline style, under the names a/path and b/path
DiffOf(o) ==
  <<normalize_result(o.src, o.newline), normalize_result(o.pipe.content, o.newline),
    "a/" \o o.result.path, "b/" \o o.result.path>>

\* Result.diff is set exactly when the content changed and a diff was asked
\* for, and is then the diff of the original and the transformed content
\* labelled with the file's path
DiffExactly(o) ==
  /\ (o.result.diff # <<>>) <=> (o.result.changed /\ call.diff)
  /\ o.result.diff # <<>> => o.result.diff = DiffOf(o)

\* C36 as stated: Result.diff is set exactly when the content changed and a
\* diff was requested; it stays unset for unchanged, skipped or errored files
\* and whenever diff=False.
C36_DiffUnsetOnError ==
  \A i \in Ended :
    LET o == tasks[i].out
    IN  o.raised = None =>
          /\ DiffExactly(o)
          /\ (\/ ~o.result.changed
              \/ o.result.skipped # PyFalse
              \/ o.result.error # None
              \/ ~call.diff) => o.result.diff = <<>>

\* C36, amended: Result.diff is set exactly when the content changed and a
\* diff was requested; it stays unset for unchanged and skipped files, for
\* files whose reading or transformation failed and whenever diff=False, and
\* a changed file whose write failed has both error and diff set.
C36_DiffWhenChangedAndAsked ==
  \A i \in Ended :
    LET o == tasks[i].out
    IN  o.raised = None =>
          /\ DiffExactly(o)
          /\ (\/ ~o.result.changed
              \/ o.result.skipped # PyFalse
              \/ (o.result.error # None /\ o.fail = NotWritten)
              \/ ~call.diff) => o.result.diff = <<>>
          /\ (o.result.error # None /\ o.fail # NotWritten /\ call.diff) =>
               o.result.diff = DiffOf(o)

\* write_file failed on a changed file whose diff was asked for
C36_Witness ==
  /\ pc = "done"
  /\ call.diff
  /\ tasks[1].out.raised = None
  /\ tasks[1].out.result.error = "write_file error"
  /\ tasks[1].out.result.changed
  /\ tasks[1].out.result.diff = DiffOf(tasks[1].out)
  /\ tasks[1].out.newline = CRLF

(* ---------------------- claims on streamed discovery -------------------- *)

\* the input paths after the one that yielded the n-th discovered file
RestAfter(n) ==
  LET j == CHOOSE k \in DOMAIN call.paths :
             /\ Len(Discovered(SubSeq(call.paths, 1, k))) = n
             /\ disk0[call.paths[k]] # Missing
  IN  SubSeq(call.paths, j + 1, Len(call.paths))

\* C37: discovery is streamed. When ufmt_paths hands the first two files to
\* the pool, the input paths after the one that yielded the second file have
\* not been walked, and a submitted file can be formatted whether or not the
\* generator has come to its end.
C37_Streamed ==
  /\ (pc = "pool" /\ Len(tasks) = 2 /\ ~gen.stopped) => gen.rest = RestAfter(2)
  /\ \A i \in DOMAIN tasks : tasks[i].state = "submitted" => ENABLED Work(i)

\* the first file was formatted and written before the third input path was
\* walked
C37_Witness ==
  /\ pc = "pool"
  /\ Len(call.paths) = 3
  /\ gen.rest = <<call.paths[3]>>
  /\ Len(tasks) = 2
  /\ tasks[1].state = "finished"
  /\ tasks[1].out.result.written
  /\ tasks[2].state = "submitted"

(* ------------------------- claims on termination ------------------------ *)

\* C35: when every call terminates and the workers are scheduled fairly, a
\* run of ufmt_paths over discovered files eventually has yielded a Result
\* for every discovered file and has terminated.
C35_EventuallyAllResults ==
  <>(pc = "done" /\ \A f \in Files : IsDiscovered(f) => ResultsOf(f) # {})

(* ---------------------- claims on the root of a run --------------------- *)

\* C38: when ufmt_paths is called with an explicit root R, every per-file
\* ufmt_file task resolves its configuration with the root R that discovery
\* used for the excludes, and so selects the formatter and sorter of R's
\* configuration.
C38_TasksUseRoot ==
  call.root # None =>
    \A i \in DOMAIN tasks :
      /\ tasks[i].key[2] = call.root
      /\ tasks[i].raised = None =>
           /\ tasks[i].config.formatter =
                load_config(<<tasks[i].key[1], call.root>>).config.formatter
           /\ tasks[i].config.sorter =
                load_config(<<tasks[i].key[1], call.root>>).config.sorter

(* ------------------ claims on the configuration objects ----------------- *)

\* C39: ufmt_bytes leaves the configuration objects of the caller unchanged,
\* so two successive calls with the same path, content and objects call the
\* formatter backend with the same options, for every formatter and for stub
\* paths too.
C39_ConfigsUnchanged ==
  \A i \in DOMAIN tasks :
    /\ tasks[i].after = tasks[i].before
    /\ \A j \in DOMAIN tasks :
         (tasks[i].options # NoOptions /\ tasks[j].options # NoOptions) =>
           tasks[i].options = tasks[j].options

(* -------------------------- claims on ResultCache ----------------------- *)

\* the table before call i of the log
RowsBefore(i) == IF i = 1 THEN {} ELSE tasks[i - 1].rows

\* cleanup call k removed the entry of path and content
Removed(k, path, content) ==
  /\ tasks[k].call = "cleanup"
  /\ \E r \in RowsBefore(k) \ tasks[k].rows : r.path = path /\ r.crc = adler32(content)

\* call j marked path with content, and no cleanup before call i removed the
\* entry since
MarkedAndKept(j, i, path, content) ==
  /\ j < i
  /\ tasks[j].call = "mark"
  /\ tasks[j].path = path
  /\ tasks[j].content = content
  /\ \A k \in (j + 1)..(i - 1) : ~Removed(k, path, content)

\* C40: check(path, content) returns true only if mark was called earlier
\* with the same path and byte-identical content and the entry was not
\* removed by cleanup since; a successful check sets the entry's last-seen
\* time to now; cleanup removes exactly the entries last seen longer ago than
\* the threshold.
C40_CheckMeansMarked ==
  \A i \in DOMAIN tasks :
    /\ (tasks[i].call = "check" /\ tasks[i].returned = PyTrue) =>
         /\ \E j \in DOMAIN tasks : MarkedAndKept(j, i, tasks[i].path, tasks[i].content)
         /\ \E r \in tasks[i].rows :
              r.path = tasks[i].path /\ r.crc = adler32(tasks[i].content)
                /\ r.seen = tasks[i].at
    /\ tasks[i].call = "cleanup" =>
         tasks[i].rows = {r \in RowsBefore(i) : r.seen + Threshold >= tasks[i].at}

(* -------------------------- claims on the commands ---------------------- *)

\* the command came to its ctx.exit(1) or to its end
Decided == pc = "done" /\ raised \in {None, "Exit(1)"}

HasError == \E k \in DOMAIN results : results[k].error # None
HasChanged == \E k \in DOMAIN results : results[k].changed

\* C31: check and diff exit with status 1 exactly when at least one Result
\* has error set or changed=true, and with 0 otherwise (runs with only
\* skipped or unchanged files or with no files included); format exits with
\* status 1 exactly when at least one Result has error set, and with 0 even
\* when files were changed.
C31_ExitStatus ==
  Decided =>
    /\ call.command \in {"check", "diff"} =>
         (raised = "Exit(1)" <=> (HasError \/ HasChanged))
    /\ call.command = "format" => (raised = "Exit(1)" <=> HasError)
    /\ (\A k \in DOMAIN results :
          results[k].error = None /\ (results[k].skipped # PyFalse \/ ~results[k].changed))
         => raised = None

\* format wrote one file, found the other skipped, and ends with status 0
C31_Witness ==
  /\ Decided
  /\ call.command = "format"
  /\ raised = None
  /\ Len(results) = 2
  /\ results[1].written
  /\ results[2].skipped # PyFalse
=============================================================================
